---- MODULE Spec2Model ----
(***************************************************************************)
(* Models of the concurrent example programs of GoMaster.                  *)
(*                                                                         *)
(*   prog = "cond"   src/sync/cond.go: a slice guarded by sync.Mutex and   *)
(*                   one sync.Cond, 2 producers and 2 consumers            *)
(*   prog = "pool3"  src/unnamed/part_000 lines 1-39: 3 workers, jobs 0..5 *)
(*   prog = "pool2"  src/unnamed/part_000 lines 132-191: 2 workerr         *)
(*                   goroutines, each starting a goroutine per job         *)
(*                                                                         *)
(* A program is a set of goroutines, each with a program counter; one      *)
(* action is one statement (or one blocking library call) of the source.   *)
(* time.Sleep and fmt.Printf take a step and change nothing else: the Go   *)
(* memory model gives no ordering from elapsed time.  The process ends     *)
(* when main returns (exited) or when a goroutine panics (panicked); no    *)
(* goroutine takes a step after that.                                      *)
(***************************************************************************)
EXTENDS Integers, Sequences, FiniteSets, TLC

VARIABLES
    prog,       \* which program runs
    exited,     \* main has returned: the process is gone
    panicked,   \* a goroutine panicked with no recover: the process is gone
    \* ---- src/sync/cond.go
    queue,      \* var queue []int
    muOwner,    \* mu: 0 when unlocked, else the goroutine holding it
    notify,     \* cond's notify list: goroutines blocked in cond.Wait, oldest first
    cpc,        \* position of each producer / consumer
    ci,         \* loop variable i of each producer / consumer
    waited,     \* the goroutine returned from cond.Wait in this iteration
    appended,   \* history: items in the order the appends happened
    removed,    \* history: items in the order the removals happened
    \* ---- src/unnamed/part_000: the two worker pools
    jobs,       \* buffer of the channel jobs
    jobsClosed, \* close(jobs) was executed
    results,    \* buffer of the channel results
    resultsClosed, \* close(results) was executed
    mpc,        \* position of main
    mj,         \* main's loop variable (j, then k or a)
    wpc,        \* position of each worker / workerr
    wjob,       \* the job a worker holds (loop variable job / j)
    wg,         \* counter of each workerr's sync.WaitGroup
    gpc,        \* position of the goroutine workerr started for a job
    gowner,     \* the workerr that started the goroutine of a job
    gres,       \* local variable result of the goroutine of a job
    delivered,  \* history: jobs in the order workers received them
    sentRes,    \* history: results in the order they were sent on results
    got,        \* history: results in the order main received them
    deliveredAtClose, \* history: how many jobs were delivered when jobs was closed
    \* ---- the other channel and sync programs (one runs at a time)
    pcOf,       \* position of each goroutine, by name
    local,      \* the local variable each goroutine holds, by goroutine
    chanBuf,    \* buffer of each channel, by name
    chanClosed, \* whether each channel is closed, by name
    counter,    \* integer state by name: WaitGroup counters, flags, clocks
    hist        \* histories by name: values in the order an event happened

condVars == <<queue, muOwner, notify, cpc, ci, waited, appended, removed>>
poolVars == <<jobs, jobsClosed, results, resultsClosed, mpc, mj, wpc, wjob, wg,
              gpc, gowner, gres, delivered, sentRes, got, deliveredAtClose>>
procVars == <<prog, exited, panicked>>
goVars == <<pcOf, local, chanBuf, chanClosed, counter, hist>>
vars == <<procVars, condVars, poolVars, goVars>>

\* the variables of the programs other than cond.go
condOthers == <<poolVars, goVars>>
\* the variables of the programs other than the worker pools
poolOthers == <<condVars, goVars>>
\* the variables of cond.go and of the worker pools
goOthers == <<condVars, poolVars>>

Running == ~exited /\ ~panicked

(***************************************************************************)
(* src/sync/cond.go                                                        *)
(***************************************************************************)
capacity == 5
NumItems == 3

Producers == {1, 2}
Consumers == {3, 4}
CondProcs == Producers \cup Consumers

Role(p) == IF p \in Producers THEN "producer" ELSE "consumer"

\* if len(queue) == capacity   (the mutant is off by one)
ProducerMustWaitOffByOne(q) == Len(q) > capacity
ProducerMustWait(q) == Len(q) = capacity

\* if len(queue) == 0
ConsumerMustWait(q) == Len(q) = 0

\* queue = append(queue, i)   (the mutant pushes at the front)
PushFront(q, i) == <<i>> \o q
AppendItem(q, i) == Append(q, i)

\* cond.Wait() re-locks mu before it returns, so it returns only once mu is
\* free (the mutant returns without re-locking)
WaitSkipsRelock == TRUE
WaitCanRelock == muOwner = 0

\* the section between mu.Lock()/return from Wait and mu.Unlock()/entry to Wait
CSLabels == {"check", "body", "signal", "unlock"}
InCS(p) == cpc[p] \in CSLabels

InitCond ==
    /\ prog = "cond" /\ exited = FALSE /\ panicked = FALSE
    /\ queue = <<>>
    /\ muOwner = 0
    /\ notify = <<>>
    /\ cpc = [p \in CondProcs |-> "lock"]
    /\ ci = [p \in CondProcs |-> 1]
    /\ waited = [p \in CondProcs |-> FALSE]
    /\ appended = <<>>
    /\ removed = <<>>
    \* the worker pools do not run
    /\ jobs = <<>> /\ jobsClosed = FALSE /\ results = <<>> /\ resultsClosed = FALSE
    /\ mpc = "none" /\ mj = 0 /\ wpc = <<>> /\ wjob = <<>> /\ wg = <<>>
    /\ gpc = <<>> /\ gowner = <<>> /\ gres = <<>>
    /\ delivered = <<>> /\ sentRes = <<>> /\ got = <<>> /\ deliveredAtClose = 0
    /\ pcOf = <<>> /\ local = <<>> /\ chanBuf = <<>> /\ chanClosed = <<>>
    /\ counter = <<>> /\ hist = <<>>

\* mu.Lock()
Lock(p) ==
    /\ Running /\ cpc[p] = "lock"
    /\ muOwner = 0
    /\ muOwner' = p
    /\ cpc' = [cpc EXCEPT ![p] = "check"]
    /\ waited' = [waited EXCEPT ![p] = FALSE]
    /\ UNCHANGED <<condOthers, procVars, queue, notify, ci, appended, removed>>

\* if <must wait> { Printf; cond.Wait() }: Wait joins the notify list and unlocks mu
CheckOrWait(p) ==
    /\ Running /\ cpc[p] = "check"
    /\ IF (IF p \in Producers THEN ProducerMustWait(queue) ELSE ConsumerMustWait(queue))
       THEN /\ notify' = Append(notify, p)
            /\ muOwner' = 0
            /\ cpc' = [cpc EXCEPT ![p] = "wait"]
       ELSE /\ cpc' = [cpc EXCEPT ![p] = "body"]
            /\ UNCHANGED <<notify, muOwner>>
    /\ UNCHANGED <<condOthers, procVars, queue, ci, waited, appended, removed>>

\* cond.Wait() returns: the goroutine was notified and re-locks mu; the
\* condition is an 'if', so the body follows without a second test
WaitReturn(p) ==
    /\ Running /\ cpc[p] = "woken"
    /\ WaitCanRelock
    /\ muOwner' = p
    /\ cpc' = [cpc EXCEPT ![p] = "body"]
    /\ waited' = [waited EXCEPT ![p] = TRUE]
    /\ UNCHANGED <<condOthers, procVars, queue, notify, ci, appended, removed>>

\* queue = append(queue, i)
ProducerAppend(p) ==
    /\ Running /\ p \in Producers /\ cpc[p] = "body"
    /\ queue' = AppendItem(queue, ci[p])
    /\ appended' = Append(appended, ci[p])
    /\ cpc' = [cpc EXCEPT ![p] = "signal"]
    /\ UNCHANGED <<condOthers, procVars, muOwner, notify, ci, waited, removed>>

\* item := queue[0]; queue = queue[1:]   (queue[0] of an empty slice panics)
ConsumerRemove(p) ==
    /\ Running /\ p \in Consumers /\ cpc[p] = "body"
    /\ IF Len(queue) = 0
       THEN /\ panicked' = TRUE
            /\ cpc' = [cpc EXCEPT ![p] = "panic"]
            /\ UNCHANGED <<queue, removed>>
       ELSE /\ removed' = Append(removed, queue[1])
            /\ queue' = Tail(queue)
            /\ cpc' = [cpc EXCEPT ![p] = "signal"]
            /\ UNCHANGED panicked
    /\ UNCHANGED <<condOthers, prog, exited, muOwner, notify, ci, waited, appended>>

\* cond.Signal(): wakes the goroutine that has waited longest, if there is one
Signal(p) ==
    /\ Running /\ cpc[p] = "signal"
    /\ IF notify # <<>>
       THEN /\ notify' = Tail(notify)
            /\ cpc' = [cpc EXCEPT ![p] = "unlock", ![notify[1]] = "woken"]
       ELSE /\ cpc' = [cpc EXCEPT ![p] = "unlock"]
            /\ UNCHANGED notify
    /\ UNCHANGED <<condOthers, procVars, queue, muOwner, ci, waited, appended, removed>>

\* mu.Unlock()
Unlock(p) ==
    /\ Running /\ cpc[p] = "unlock"
    /\ muOwner' = 0
    /\ cpc' = [cpc EXCEPT ![p] = "sleep"]
    /\ UNCHANGED <<condOthers, procVars, queue, notify, ci, waited, appended, removed>>

\* time.Sleep(...); i++; i <= 3
SleepAndLoop(p) ==
    /\ Running /\ cpc[p] = "sleep"
    /\ ci' = [ci EXCEPT ![p] = ci[p] + 1]
    /\ cpc' = [cpc EXCEPT ![p] = IF ci[p] + 1 <= NumItems THEN "lock" ELSE "done"]
    /\ UNCHANGED <<condOthers, procVars, queue, muOwner, notify, waited, appended, removed>>

\* main's time.Sleep(time.Second * 5) can end whatever the producers and
\* consumers are doing: main joins nobody (the mutant's main waits until all
\* four have finished)
MainJoinsAll == \A p \in CondProcs : cpc[p] = "done"
MainSleepOver == TRUE

\* main: time.Sleep(time.Second * 5) ends and main returns
CondMainReturn ==
    /\ Running /\ MainSleepOver
    /\ exited' = TRUE
    /\ UNCHANGED <<condOthers, prog, panicked, condVars>>

CondStep(p) ==
    \/ Lock(p)
    \/ CheckOrWait(p)
    \/ WaitReturn(p)
    \/ ProducerAppend(p)
    \/ ConsumerRemove(p)
    \/ Signal(p)
    \/ Unlock(p)
    \/ SleepAndLoop(p)

NextCond == (\E p \in CondProcs : CondStep(p)) \/ CondMainReturn

SpecCond == InitCond /\ [][NextCond]_vars

\* The Go scheduler runs every runnable goroutine, and a sync.Mutex hands the
\* lock to a goroutine that keeps asking for it (starvation mode).  Nothing
\* forces main's sleep to end.
FairCond ==
    \A p \in CondProcs :
        /\ WF_vars(CheckOrWait(p) \/ ProducerAppend(p) \/ ConsumerRemove(p)
                    \/ Signal(p) \/ Unlock(p) \/ SleepAndLoop(p))
        /\ SF_vars(Lock(p) \/ WaitReturn(p))

FairSpecCond == SpecCond /\ FairCond

(***************************************************************************)
(* Claims about src/sync/cond.go                                           *)
(***************************************************************************)
CondAllDone == \A p \in CondProcs : cpc[p] = "done"

\* C1: in every reachable state 0 <= len(queue) <= capacity, and a producer
\* that is about to append (also one that resumed from cond.Wait) finds
\* fewer than capacity items in the queue.
QueueWithinCapacity ==
    /\ 0 <= Len(queue)
    /\ Len(queue) <= capacity
    /\ \A p \in Producers : cpc[p] = "body" => Len(queue) < capacity

\* C1 witness: a producer that was blocked in cond.Wait on a full queue has
\* resumed and appended its item.
ProducerResumedAndAppended ==
    \E p \in Producers : waited[p] /\ cpc[p] = "signal" /\ Len(appended) = 6

\* C2: a consumer reaches the removal (item := queue[0]) only in a state
\* where len(queue) >= 1, also after it was woken from cond.Wait.
ConsumerRemovesOnlyNonEmpty ==
    \A c \in Consumers : cpc[c] = "body" => Len(queue) >= 1

\* C3: the items removed, in removal order, are a prefix of the items
\* appended, in append order, and the queue holds exactly the rest: no item
\* is removed twice and none is removed that was not appended.
FifoPrefix ==
    /\ Len(removed) <= Len(appended)
    /\ \A k \in 1..Len(removed) : removed[k] = appended[k]
    /\ appended = removed \o queue

\* C3 witness: items of both producers were appended in an interleaved
\* order, some were removed and some are still queued.
FifoInterleaved ==
    /\ Len(removed) >= 3
    /\ Len(queue) >= 2
    /\ appended[1] = 1 /\ appended[2] = 1 /\ appended[3] = 2

\* C4: under fair scheduling, unless main has returned, every producer and
\* consumer eventually finishes its 3 iterations: none stays blocked and
\* none aborts.
AllEventuallyFinish == <>(CondAllDone \/ exited)

\* C5: a goroutine inside the section between mu.Lock()/return from Wait
\* and mu.Unlock()/entry to Wait holds mu, at most one goroutine is inside,
\* and every step that changes queue is taken by the holder of mu.
MutualExclusion ==
    /\ [](/\ \A p \in CondProcs : InCS(p) => muOwner = p
          /\ Cardinality({p \in CondProcs : InCS(p)}) <= 1)
    /\ [][queue' # queue =>
            \E p \in CondProcs : muOwner = p /\ cpc[p] = "body" /\ cpc'[p] = "signal"]_vars

\* C5 witness: one goroutine is inside the section after returning from
\* cond.Wait while another one, already notified, is kept out.
OneInsideOneKeptOut ==
    \E p, q \in CondProcs :
        /\ p # q
        /\ InCS(p) /\ waited[p] /\ muOwner = p
        /\ cpc[q] = "woken"

\* C6: every cond.Signal() wakes at most one waiter, and the waiter it wakes
\* is of the opposite role to the goroutine that signals.
SignalWakesOppositeRole ==
    [][\A s \in CondProcs :
          (cpc[s] = "signal" /\ cpc'[s] = "unlock") =>
              /\ Cardinality({w \in CondProcs : cpc[w] = "wait" /\ cpc'[w] = "woken"}) <= 1
              /\ \A w \in CondProcs :
                    (cpc[w] = "wait" /\ cpc'[w] = "woken") => Role(w) # Role(s)]_vars

(***************************************************************************)
(* src/unnamed/part_000: the worker pools                                  *)
(*   pool3  lines 1-39     worker,  3 workers, jobs 0..5                   *)
(*   pool2  lines 132-191  workerr, 2 workers, jobs 1..4, one goroutine    *)
(*                         per job, joined by the workerr's WaitGroup      *)
(* A buffered channel is its buffer (a sequence) and its closed flag: a    *)
(* send blocks while the buffer is full, a receive while it is empty and   *)
(* the channel is open.                                                    *)
(***************************************************************************)
totaljobs == 4
totalworker == 2
Pool3Workers == 3
Pool3LastJob == 5
Pool3Cap == 5

FirstJob == IF prog = "pool3" THEN 0 ELSE 1
LastJob == IF prog = "pool3" THEN Pool3LastJob ELSE totaljobs
NumJobs == LastJob - FirstJob + 1
JobIds == FirstJob..LastJob
ChanCap == IF prog = "pool3" THEN Pool3Cap ELSE totaljobs
Workers == IF prog = "pool3" THEN 1..Pool3Workers ELSE 1..totalworker

\* job * 2   (the mutant forgets the factor)
NotDoubled(job) == job
Double(job) == job * 2

\* 'for job := range jobs' ends when jobs is closed and its buffer is empty
\* (the mutant ends the loop as soon as jobs is closed)
RangeEndsAtClose == jobsClosed
RangeEnds == jobsClosed /\ jobs = <<>>

\* a worker takes the next job only at the top of its loop, after it has
\* sent the previous result (the mutant takes it while the send is pending)
AtRangeOrSend(w) == wpc[w] \in {"range", "send"}
AtRange(w) == wpc[w] = "range"

\* results <- job * 2 can proceed when the buffer of results has room,
\* whichever job the worker holds (the mutant lets results through in job
\* order only)
SendReadyInJobOrder(w) == Len(results) < ChanCap /\ wjob[w] = Len(sentRes)
SendReady(w) == Len(results) < ChanCap

InitPools ==
    /\ prog \in {"pool3", "pool2"} /\ exited = FALSE /\ panicked = FALSE
    /\ jobs = <<>> /\ jobsClosed = FALSE /\ results = <<>> /\ resultsClosed = FALSE
    /\ mpc = "send"
    /\ mj = (IF prog = "pool3" THEN 0 ELSE 1)
    /\ wpc = [w \in (IF prog = "pool3" THEN 1..Pool3Workers ELSE 1..totalworker) |-> "range"]
    /\ wjob = [w \in (IF prog = "pool3" THEN 1..Pool3Workers ELSE 1..totalworker) |-> 0]
    /\ wg = [w \in (IF prog = "pool3" THEN 1..Pool3Workers ELSE 1..totalworker) |-> 0]
    /\ gpc = [j \in 1..totaljobs |-> "none"]
    /\ gowner = [j \in 1..totaljobs |-> 0]
    /\ gres = [j \in 1..totaljobs |-> 0]
    /\ delivered = <<>> /\ sentRes = <<>> /\ got = <<>> /\ deliveredAtClose = 0
    \* cond.go does not run
    /\ queue = <<>> /\ muOwner = 0 /\ notify = <<>> /\ cpc = <<>> /\ ci = <<>>
    /\ waited = <<>> /\ appended = <<>> /\ removed = <<>>
    /\ pcOf = <<>> /\ local = <<>> /\ chanBuf = <<>> /\ chanClosed = <<>>
    /\ counter = <<>> /\ hist = <<>>

\* main: for j ... { jobs <- j }
MainSendJob ==
    /\ Running /\ mpc = "send"
    /\ Len(jobs) < ChanCap
    /\ jobs' = Append(jobs, mj)
    /\ mj' = mj + 1
    /\ mpc' = IF mj + 1 <= LastJob THEN "send" ELSE "close"
    /\ UNCHANGED <<poolOthers, procVars, jobsClosed, results, resultsClosed, wpc, wjob,
                   wg, gpc, gowner, gres, delivered, sentRes, got, deliveredAtClose>>

\* main: close(jobs)
MainCloseJobs ==
    /\ Running /\ mpc = "close"
    /\ jobsClosed' = TRUE
    /\ deliveredAtClose' = Len(delivered)
    /\ mj' = FirstJob
    /\ mpc' = "recv"
    /\ UNCHANGED <<poolOthers, procVars, jobs, results, resultsClosed, wpc, wjob,
                   wg, gpc, gowner, gres, delivered, sentRes, got>>

\* main's receive loop goes on while its index is within the jobs (the
\* mutant's loop stops one receive early)
RecvLoopStopsEarly(a) == a < LastJob
RecvLoopGoesOn(a) == a <= LastJob

\* main: for k ... { <-results }
MainRecvResult ==
    /\ Running /\ mpc = "recv"
    /\ results # <<>>
    /\ got' = Append(got, Head(results))
    /\ results' = Tail(results)
    /\ mj' = mj + 1
    /\ mpc' = IF RecvLoopGoesOn(mj + 1) THEN "recv"
              ELSE IF prog = "pool2" THEN "closeres" ELSE "return"
    /\ UNCHANGED <<poolOthers, procVars, jobs, jobsClosed, resultsClosed, wpc, wjob,
                   wg, gpc, gowner, gres, delivered, sentRes, deliveredAtClose>>

\* main of pool2: close(results)
MainCloseResults ==
    /\ Running /\ prog = "pool2" /\ mpc = "closeres"
    /\ resultsClosed' = TRUE
    /\ mpc' = "return"
    /\ UNCHANGED <<poolOthers, procVars, jobs, jobsClosed, results, mj, wpc, wjob,
                   wg, gpc, gowner, gres, delivered, sentRes, got, deliveredAtClose>>

\* main returns: the process ends
PoolMainReturn ==
    /\ Running /\ mpc = "return"
    /\ exited' = TRUE
    /\ mpc' = "gone"
    /\ UNCHANGED <<poolOthers, prog, panicked, jobs, jobsClosed, results, resultsClosed,
                   mj, wpc, wjob, wg, gpc, gowner, gres, delivered, sentRes, got,
                   deliveredAtClose>>

\* worker / workerr: for job := range jobs  (receive the next job, or leave
\* the loop; blocks while jobs is open and empty)
WorkerRange(w) ==
    /\ Running /\ w \in Workers /\ AtRange(w)
    /\ IF RangeEnds
       THEN /\ wpc' = [wpc EXCEPT ![w] = IF prog = "pool3" THEN "done" ELSE "wait"]
            /\ UNCHANGED <<jobs, wjob, delivered>>
       ELSE /\ jobs # <<>>
            /\ wjob' = [wjob EXCEPT ![w] = Head(jobs)]
            /\ jobs' = Tail(jobs)
            /\ delivered' = Append(delivered, Head(jobs))
            /\ wpc' = [wpc EXCEPT ![w] = IF prog = "pool3" THEN "work" ELSE "add"]
    /\ UNCHANGED <<poolOthers, procVars, jobsClosed, results, resultsClosed, mpc, mj,
                   wg, gpc, gowner, gres, sentRes, got, deliveredAtClose>>

\* worker: fmt.Printf(...); time.Sleep(time.Second)
WorkerWork(w) ==
    /\ Running /\ w \in Workers /\ prog = "pool3" /\ wpc[w] = "work"
    /\ wpc' = [wpc EXCEPT ![w] = "send"]
    /\ UNCHANGED <<poolOthers, procVars, jobs, jobsClosed, results, resultsClosed, mpc, mj,
                   wjob, wg, gpc, gowner, gres, delivered, sentRes, got, deliveredAtClose>>

\* worker: results <- job * 2
WorkerSend(w) ==
    /\ Running /\ w \in Workers /\ prog = "pool3" /\ wpc[w] = "send"
    /\ SendReady(w)
    /\ results' = Append(results, Double(wjob[w]))
    /\ sentRes' = Append(sentRes, Double(wjob[w]))
    /\ wpc' = [wpc EXCEPT ![w] = "range"]
    /\ wjob' = [wjob EXCEPT ![w] = 0]    \* the loop variable's value is dead here
    /\ UNCHANGED <<poolOthers, procVars, jobs, jobsClosed, resultsClosed, mpc, mj,
                   wg, gpc, gowner, gres, delivered, got, deliveredAtClose>>

\* workerr: wg.Add(1)
WorkerrAdd(w) ==
    /\ Running /\ w \in Workers /\ prog = "pool2" /\ wpc[w] = "add"
    /\ wg' = [wg EXCEPT ![w] = wg[w] + 1]
    /\ wpc' = [wpc EXCEPT ![w] = "go"]
    /\ UNCHANGED <<poolOthers, procVars, jobs, jobsClosed, results, resultsClosed, mpc, mj,
                   wjob, gpc, gowner, gres, delivered, sentRes, got, deliveredAtClose>>

\* workerr: go func(job int) { ... }(j)
WorkerrGo(w) ==
    /\ Running /\ w \in Workers /\ prog = "pool2" /\ wpc[w] = "go"
    /\ gpc' = [gpc EXCEPT ![wjob[w]] = "start"]
    /\ gowner' = [gowner EXCEPT ![wjob[w]] = w]
    /\ wpc' = [wpc EXCEPT ![w] = "range"]
    /\ wjob' = [wjob EXCEPT ![w] = 0]    \* the loop variable's value is dead here
    /\ UNCHANGED <<poolOthers, procVars, jobs, jobsClosed, results, resultsClosed, mpc, mj,
                   wg, gres, delivered, sentRes, got, deliveredAtClose>>

\* workerr: wg.Wait(), then return
WorkerrWait(w) ==
    /\ Running /\ w \in Workers /\ prog = "pool2" /\ wpc[w] = "wait"
    /\ wg[w] = 0
    /\ wpc' = [wpc EXCEPT ![w] = "done"]
    /\ UNCHANGED <<poolOthers, procVars, jobs, jobsClosed, results, resultsClosed, mpc, mj,
                   wjob, wg, gpc, gowner, gres, delivered, sentRes, got, deliveredAtClose>>

\* goroutine of a job: Printf("started"); result := job * 2
JobStart(j) ==
    /\ Running /\ prog = "pool2" /\ gpc[j] = "start"
    /\ gres' = [gres EXCEPT ![j] = Double(j)]
    /\ gpc' = [gpc EXCEPT ![j] = "send"]
    /\ UNCHANGED <<poolOthers, procVars, jobs, jobsClosed, results, resultsClosed, mpc, mj,
                   wpc, wjob, wg, gowner, delivered, sentRes, got, deliveredAtClose>>

\* goroutine of a job: results <- result  (a send on a closed channel panics)
JobSend(j) ==
    /\ Running /\ prog = "pool2" /\ gpc[j] = "send"
    /\ IF resultsClosed
       THEN /\ panicked' = TRUE
            /\ gpc' = [gpc EXCEPT ![j] = "panic"]
            /\ UNCHANGED <<results, sentRes>>
       ELSE /\ Len(results) < ChanCap
            /\ results' = Append(results, gres[j])
            /\ sentRes' = Append(sentRes, gres[j])
            /\ gpc' = [gpc EXCEPT ![j] = "finish"]
            /\ UNCHANGED panicked
    /\ UNCHANGED <<poolOthers, prog, exited, jobs, jobsClosed, resultsClosed, mpc, mj,
                   wpc, wjob, wg, gowner, gres, delivered, got, deliveredAtClose>>

\* goroutine of a job: Printf("finished"); the deferred wg.Done()
JobFinish(j) ==
    /\ Running /\ prog = "pool2" /\ gpc[j] = "finish"
    /\ wg' = [wg EXCEPT ![gowner[j]] = wg[gowner[j]] - 1]
    /\ gpc' = [gpc EXCEPT ![j] = "done"]
    /\ UNCHANGED <<poolOthers, procVars, jobs, jobsClosed, results, resultsClosed, mpc, mj,
                   wpc, wjob, gowner, gres, delivered, sentRes, got, deliveredAtClose>>

MainStep ==
    \/ MainSendJob
    \/ MainCloseJobs
    \/ MainRecvResult
    \/ MainCloseResults
    \/ PoolMainReturn

WorkerStep(w) ==
    \/ WorkerRange(w)
    \/ WorkerWork(w)
    \/ WorkerSend(w)
    \/ WorkerrAdd(w)
    \/ WorkerrGo(w)
    \/ WorkerrWait(w)

JobStep(j) ==
    \/ JobStart(j)
    \/ JobSend(j)
    \/ JobFinish(j)

NextPools ==
    \/ MainStep
    \/ \E w \in 1..Pool3Workers : WorkerStep(w)
    \/ \E j \in 1..totaljobs : JobStep(j)

SpecPools == InitPools /\ [][NextPools]_vars

\* The Go scheduler runs every goroutine that can take a step.
FairPools ==
    /\ WF_vars(MainStep)
    /\ \A w \in 1..Pool3Workers : WF_vars(WorkerStep(w))
    /\ \A j \in 1..totaljobs : WF_vars(JobStep(j))

FairSpecPools == SpecPools /\ FairPools

\* the 3-worker pool alone
InitPool3 == InitPools /\ prog = "pool3"

NextPool3 ==
    \/ MainSendJob
    \/ MainCloseJobs
    \/ MainRecvResult
    \/ PoolMainReturn
    \/ \E w \in 1..Pool3Workers : WorkerRange(w) \/ WorkerWork(w) \/ WorkerSend(w)

SpecPool3 == InitPool3 /\ [][NextPool3]_vars

FairPool3 ==
    /\ WF_vars(MainSendJob \/ MainCloseJobs \/ MainRecvResult \/ PoolMainReturn)
    /\ \A w \in 1..Pool3Workers :
          WF_vars(WorkerRange(w) \/ WorkerWork(w) \/ WorkerSend(w))

FairSpecPool3 == SpecPool3 /\ FairPool3

(***************************************************************************)
(* Claims about the worker pools of src/unnamed/part_000                   *)
(***************************************************************************)
Count(seq, x) == Cardinality({k \in 1..Len(seq) : seq[k] = x})

\* jobs received from the channel jobs whose result is not yet sent on results
InFlight == Len(delivered) - Len(sentRes)

MainHasAllResults == mpc \in {"closeres", "return", "gone"}

\* C7: main receives exactly as many results as jobs were sent and the
\* multiset of received results is {2*j : j a sent job}; no job is lost and
\* none is processed twice.
ResultsConserved ==
    /\ \A j \in JobIds : Count(delivered, j) <= 1
    /\ \A k \in 1..Len(got) : \E j \in JobIds : got[k] = 2 * j /\ Count(got, got[k]) = 1
    /\ MainHasAllResults =>
          /\ Len(got) = NumJobs
          /\ \A j \in JobIds : Count(got, 2 * j) = 1

\* C7 witness: main of the 3-worker pool has returned with all 6 results,
\* received in an order other than the order of the jobs.
AllResultsOutOfOrder ==
    /\ prog = "pool3" /\ exited
    /\ Len(got) = 6
    /\ got[1] = 4 /\ got[6] = 0

\* C8: in the 3-worker pool at most 3 jobs are in flight at every instant.
Pool3InFlightBound ==
    prog = "pool3" => (0 <= InFlight /\ InFlight <= 3)

\* C8 witness: all 3 workers hold a job at once.
Pool3ThreeInFlight ==
    prog = "pool3" /\ InFlight = 3 /\ \A w \in Workers : wpc[w] \in {"work", "send"}

\* C9: in the 2-workerr pool at most totalworker = 2 jobs are in flight at
\* every instant.
Pool2InFlightBound ==
    prog = "pool2" => InFlight <= totalworker

\* C10: in the 3-worker pool the jobs are delivered to the workers in the
\* order they were sent, also those still buffered at close(jobs); a
\* worker's range loop has ended only if jobs is closed and empty; once it
\* has ended the worker takes no further job; and after close(jobs) every
\* job sent is eventually delivered.
CloseThenDrain ==
    /\ [](/\ delivered \o jobs = [k \in 1..(Len(delivered) + Len(jobs)) |-> k - 1]
          /\ \A w \in Workers : wpc[w] = "done" => (jobsClosed /\ jobs = <<>>))
    /\ [][\A w \in Workers :
            wpc[w] = "done" => (wpc'[w] = "done" /\ wjob'[w] = wjob[w])]_vars
    /\ jobsClosed ~> (delivered = <<0, 1, 2, 3, 4, 5>>)

\* C10 witness: jobs was closed when only one job had been delivered, the 5
\* buffered jobs were delivered afterwards, and a worker has left its loop.
DrainedAfterClose ==
    /\ jobsClosed /\ deliveredAtClose = 1
    /\ delivered = <<0, 1, 2, 3, 4, 5>>
    /\ \E w \in Workers : wpc[w] = "done"

\* C12: in the 2-workerr pool results is closed only after the pool is fully
\* stopped: both workerr goroutines have returned from wg.Wait() and every
\* goroutine started for a job has finished.
ResultsClosedAfterPoolStopped ==
    (prog = "pool2" /\ resultsClosed) =>
        /\ \A w \in Workers : wpc[w] = "done"
        /\ \A j \in 1..totaljobs : gpc[j] = "done"

\* C16: in the 3-worker pool the order of the results is not fixed by the
\* order of the jobs: whenever two workers both hold a result to send and
\* results has room, each of the two sends can be the next step, and main
\* receives the results in the order they were sent.
EitherResultMayComeFirst ==
    /\ got \o results = sentRes
    /\ \A w1, w2 \in Workers :
          (w1 # w2 /\ wpc[w1] = "send" /\ wpc[w2] = "send" /\ Len(results) < Pool3Cap
              /\ Running)
          => (ENABLED WorkerSend(w1) /\ ENABLED WorkerSend(w2))

\* C16 witness: job 0 was sent before job 1 and main received 2*1 before 2*0;
\* later results arrived in yet another order.
LaterJobReceivedFirst ==
    /\ Len(got) = 6
    /\ got[1] = 2 /\ got[2] = 0
    /\ got[3] = 8 /\ got[4] = 4

\* C16 witness of the other order (the results of jobs 0 and 1 in job order).
EarlierJobReceivedFirst ==
    Len(got) = 6 /\ got[1] = 0 /\ got[2] = 2

\* C19: a producer or consumer blocked in cond.Wait can return without a
\* Signal (with a cancellation outcome): while it is blocked it always has a
\* step of its own by which it leaves the wait.
BlockedWaiterCanReturn ==
    \A p \in CondProcs : (Running /\ cpc[p] = "wait") => ENABLED CondStep(p)

(***************************************************************************)
(* src/notes/Patterns.md lines 85-133: Fan-Out, Fan-In  (prog = "fanin")   *)
(*   producer sends 1..5 on jobs and closes it; 3 workers square what they *)
(*   receive onto results; a goroutine closes results after wg.Wait();     *)
(*   main ranges over results.  A goroutine not yet started is "unborn".   *)
(***************************************************************************)
FanWorkers == {"worker1", "worker2", "worker3"}
FanWorkerOf(i) == IF i = 1 THEN "worker1" ELSE IF i = 2 THEN "worker2" ELSE "worker3"
FanNumWorkers == 3
FanLastItem == 5
FanCap == 5

\* num * num
Square(num) == num * num

\* wg.Wait() returns when the counter is 0 (the mutant does not wait)
WgNotAwaited == TRUE
WgIsZero == counter["wg"] = 0

InitFanIn ==
    /\ prog = "fanin" /\ exited = FALSE /\ panicked = FALSE
    /\ pcOf = [g \in FanWorkers \cup {"producer", "closer"} |-> "unborn"]
                 @@ [g \in {"main"} |-> "goproducer"]
    /\ local = [g \in FanWorkers \cup {"producer", "closer", "main"} |-> 0]
    /\ chanBuf = [c \in {"jobs", "results"} |-> <<>>]
    /\ chanClosed = [c \in {"jobs", "results"} |-> FALSE]
    /\ counter = [c \in {"wg", "closes"} |-> 0]
    /\ hist = [h \in {"sent", "got"} |-> <<>>]
    \* cond.go and the worker pools do not run
    /\ queue = <<>> /\ muOwner = 0 /\ notify = <<>> /\ cpc = <<>> /\ ci = <<>>
    /\ waited = <<>> /\ appended = <<>> /\ removed = <<>>
    /\ jobs = <<>> /\ jobsClosed = FALSE /\ results = <<>> /\ resultsClosed = FALSE
    /\ mpc = "none" /\ mj = 0 /\ wpc = <<>> /\ wjob = <<>> /\ wg = <<>>
    /\ gpc = <<>> /\ gowner = <<>> /\ gres = <<>>
    /\ delivered = <<>> /\ sentRes = <<>> /\ got = <<>> /\ deliveredAtClose = 0

\* main: go producer(jobs)
FanGoProducer ==
    /\ Running /\ pcOf["main"] = "goproducer"
    /\ pcOf' = [pcOf EXCEPT !["main"] = "add", !["producer"] = "send"]
    /\ local' = [local EXCEPT !["main"] = 1, !["producer"] = 1]
    /\ UNCHANGED <<goOthers, procVars, chanBuf, chanClosed, counter, hist>>

\* main: wg.Add(1)
FanWgAdd ==
    /\ Running /\ pcOf["main"] = "add"
    /\ counter' = [counter EXCEPT !["wg"] = counter["wg"] + 1]
    /\ pcOf' = [pcOf EXCEPT !["main"] = "goworker"]
    /\ UNCHANGED <<goOthers, procVars, local, chanBuf, chanClosed, hist>>

\* main: go worker(i, jobs, results, &wg); i++; i <= 3
FanGoWorker ==
    /\ Running /\ pcOf["main"] = "goworker"
    /\ pcOf' = [pcOf EXCEPT ![FanWorkerOf(local["main"])] = "range",
                            !["main"] = IF local["main"] + 1 <= FanNumWorkers
                                        THEN "add" ELSE "gocloser"]
    /\ local' = [local EXCEPT !["main"] = local["main"] + 1]
    /\ UNCHANGED <<goOthers, procVars, chanBuf, chanClosed, counter, hist>>

\* main: go func() { wg.Wait(); close(results) }()
FanGoCloser ==
    /\ Running /\ pcOf["main"] = "gocloser"
    /\ pcOf' = [pcOf EXCEPT !["main"] = "range", !["closer"] = "wait"]
    /\ UNCHANGED <<goOthers, procVars, local, chanBuf, chanClosed, counter, hist>>

\* main: for res := range results { Println(res) }
FanMainRange ==
    /\ Running /\ pcOf["main"] = "range"
    /\ IF chanBuf["results"] # <<>>
       THEN /\ hist' = [hist EXCEPT !["got"] = Append(hist["got"], Head(chanBuf["results"]))]
            /\ chanBuf' = [chanBuf EXCEPT !["results"] = Tail(chanBuf["results"])]
            /\ UNCHANGED pcOf
       ELSE /\ chanClosed["results"]
            /\ pcOf' = [pcOf EXCEPT !["main"] = "return"]
            /\ UNCHANGED <<hist, chanBuf>>
    /\ UNCHANGED <<goOthers, procVars, local, chanClosed, counter>>

\* main returns: the process ends
FanMainReturn ==
    /\ Running /\ pcOf["main"] = "return"
    /\ exited' = TRUE
    /\ pcOf' = [pcOf EXCEPT !["main"] = "gone"]
    /\ UNCHANGED <<goOthers, prog, panicked, local, chanBuf, chanClosed, counter, hist>>

\* producer: for i := 1; i <= 5; i++ { out <- i }
FanProducerSend ==
    /\ Running /\ pcOf["producer"] = "send"
    /\ Len(chanBuf["jobs"]) < FanCap
    /\ chanBuf' = [chanBuf EXCEPT !["jobs"] = Append(chanBuf["jobs"], local["producer"])]
    /\ local' = [local EXCEPT !["producer"] = local["producer"] + 1]
    /\ pcOf' = [pcOf EXCEPT !["producer"] =
                    IF local["producer"] + 1 <= FanLastItem THEN "send" ELSE "close"]
    /\ UNCHANGED <<goOthers, procVars, chanClosed, counter, hist>>

\* producer: close(out)
FanProducerClose ==
    /\ Running /\ pcOf["producer"] = "close"
    /\ chanClosed' = [chanClosed EXCEPT !["jobs"] = TRUE]
    /\ pcOf' = [pcOf EXCEPT !["producer"] = "done"]
    /\ UNCHANGED <<goOthers, procVars, local, chanBuf, counter, hist>>

\* worker: for num := range in { Printf(...)
FanWorkerRange(w) ==
    /\ Running /\ pcOf[w] = "range"
    /\ IF chanBuf["jobs"] # <<>>
       THEN /\ local' = [local EXCEPT ![w] = Head(chanBuf["jobs"])]
            /\ chanBuf' = [chanBuf EXCEPT !["jobs"] = Tail(chanBuf["jobs"])]
            /\ pcOf' = [pcOf EXCEPT ![w] = "send"]
       ELSE /\ chanClosed["jobs"]
            /\ pcOf' = [pcOf EXCEPT ![w] = "wgdone"]
            /\ UNCHANGED <<local, chanBuf>>
    /\ UNCHANGED <<goOthers, procVars, chanClosed, counter, hist>>

\* worker: out <- num * num   (a send on a closed channel panics)
FanWorkerSend(w) ==
    /\ Running /\ pcOf[w] = "send"
    /\ IF chanClosed["results"]
       THEN /\ panicked' = TRUE
            /\ pcOf' = [pcOf EXCEPT ![w] = "panic"]
            /\ UNCHANGED <<chanBuf, hist, local>>
       ELSE /\ Len(chanBuf["results"]) < FanCap
            /\ chanBuf' = [chanBuf EXCEPT !["results"] =
                              Append(chanBuf["results"], Square(local[w]))]
            /\ hist' = [hist EXCEPT !["sent"] = Append(hist["sent"], Square(local[w]))]
            /\ local' = [local EXCEPT ![w] = 0]
            /\ pcOf' = [pcOf EXCEPT ![w] = "range"]
            /\ UNCHANGED panicked
    /\ UNCHANGED <<goOthers, prog, exited, chanClosed, counter>>

\* worker: the deferred wg.Done(), and the worker returns
FanWorkerDone(w) ==
    /\ Running /\ pcOf[w] = "wgdone"
    /\ counter' = [counter EXCEPT !["wg"] = counter["wg"] - 1]
    /\ pcOf' = [pcOf EXCEPT ![w] = "done"]
    /\ UNCHANGED <<goOthers, procVars, local, chanBuf, chanClosed, hist>>

\* closer: wg.Wait()
FanCloserWait ==
    /\ Running /\ pcOf["closer"] = "wait"
    /\ WgIsZero
    /\ pcOf' = [pcOf EXCEPT !["closer"] = "close"]
    /\ UNCHANGED <<goOthers, procVars, local, chanBuf, chanClosed, counter, hist>>

\* closer: close(results)   (closing a closed channel panics)
FanCloserClose ==
    /\ Running /\ pcOf["closer"] = "close"
    /\ IF chanClosed["results"]
       THEN /\ panicked' = TRUE
            /\ UNCHANGED <<chanClosed, counter>>
       ELSE /\ chanClosed' = [chanClosed EXCEPT !["results"] = TRUE]
            /\ counter' = [counter EXCEPT !["closes"] = counter["closes"] + 1]
            /\ UNCHANGED panicked
    /\ pcOf' = [pcOf EXCEPT !["closer"] = "done"]
    /\ UNCHANGED <<goOthers, prog, exited, local, chanBuf, hist>>

FanMainStep ==
    \/ FanGoProducer
    \/ FanWgAdd
    \/ FanGoWorker
    \/ FanGoCloser
    \/ FanMainRange
    \/ FanMainReturn

FanProducerStep == FanProducerSend \/ FanProducerClose

FanWorkerStep(w) ==
    \/ FanWorkerRange(w)
    \/ FanWorkerSend(w)
    \/ FanWorkerDone(w)

FanCloserStep == FanCloserWait \/ FanCloserClose

NextFanIn ==
    \/ FanMainStep
    \/ FanProducerStep
    \/ \E w \in FanWorkers : FanWorkerStep(w)
    \/ FanCloserStep

SpecFanIn == InitFanIn /\ [][NextFanIn]_vars

\* The Go scheduler runs every goroutine that can take a step.
FairFanIn ==
    /\ WF_vars(FanMainStep)
    /\ WF_vars(FanProducerStep)
    /\ \A w \in FanWorkers : WF_vars(FanWorkerStep(w))
    /\ WF_vars(FanCloserStep)

FairSpecFanIn == SpecFanIn /\ FairFanIn

\* C11: results is closed exactly once and only after all 3 workers have
\* returned (WaitGroup counter 0); no worker sends on results after the
\* close (no panic); when main's range loop has ended main holds the 5
\* squares; and main's range loop eventually ends.
FanInClosesAfterWorkers ==
    /\ [](/\ counter["closes"] <= 1
          /\ chanClosed["results"] =>
                (counter["wg"] = 0 /\ \A w \in FanWorkers : pcOf[w] = "done")
          /\ ~panicked
          /\ pcOf["main"] \in {"return", "gone"} =>
                (/\ Len(hist["got"]) = 5
                 /\ \A n \in 1..5 : Count(hist["got"], n * n) = 1))
    /\ <>(pcOf["main"] = "gone")

\* C11 witness: main has left its range loop with the 5 squares, received
\* out of order, after the closer closed results.
FanInAllSquaresReceived ==
    /\ pcOf["main"] = "gone" /\ counter["closes"] = 1
    /\ Len(hist["got"]) = 5 /\ hist["got"][1] = 4 /\ hist["got"][5] = 1

(***************************************************************************)
(* src/notes/concurrency.md lines 180-192: merge(ch1, ch2)  (prog="merge") *)
(*   The goroutine of merge forwards ch1 until it is closed and empty,     *)
(*   then ch2, then closes out (unbuffered).  The callers are the          *)
(*   environment: source k sends counter["n"k] values (k*10+1, k*10+2, ..) *)
(*   on ch k and then closes it; a reader ranges over out.                 *)
(***************************************************************************)
MergeMaxVals == 2
MergeSrcCap == 1

MergeSources == {"src1", "src2"}
ChanOfSrc(s) == IF s = "src1" THEN "ch1" ELSE "ch2"
CountOfSrc(s) == IF s = "src1" THEN "n1" ELSE "n2"
SentOfSrc(s) == IF s = "src1" THEN "sent1" ELSE "sent2"
BaseOfSrc(s) == IF s = "src1" THEN 10 ELSE 20

\* where merge goes when 'for val := range ch1' ends: on to the loop over
\* ch2 (the mutant closes out as soon as the first source is drained)
MergeClosesAfterCh1 == "close"
MergeAfterCh1 == "range2"

InitMerge ==
    /\ prog = "merge" /\ exited = FALSE /\ panicked = FALSE
    /\ pcOf = [g \in MergeSources |-> "send"]
                 @@ [g \in {"merge"} |-> "range1"] @@ [g \in {"reader"} |-> "range"]
    /\ local = [g \in MergeSources |-> 1] @@ [g \in {"merge", "reader"} |-> 0]
    /\ chanBuf = [c \in {"ch1", "ch2"} |-> <<>>]
    /\ chanClosed = [c \in {"ch1", "ch2", "out"} |-> FALSE]
    /\ \E n1, n2 \in 0..MergeMaxVals :
          counter = [c \in {"n1"} |-> n1] @@ [c \in {"n2"} |-> n2]
                       @@ [c \in {"closes"} |-> 0]
    /\ hist = [h \in {"sent1", "sent2", "out"} |-> <<>>]
    \* cond.go and the worker pools do not run
    /\ queue = <<>> /\ muOwner = 0 /\ notify = <<>> /\ cpc = <<>> /\ ci = <<>>
    /\ waited = <<>> /\ appended = <<>> /\ removed = <<>>
    /\ jobs = <<>> /\ jobsClosed = FALSE /\ results = <<>> /\ resultsClosed = FALSE
    /\ mpc = "none" /\ mj = 0 /\ wpc = <<>> /\ wjob = <<>> /\ wg = <<>>
    /\ gpc = <<>> /\ gowner = <<>> /\ gres = <<>>
    /\ delivered = <<>> /\ sentRes = <<>> /\ got = <<>> /\ deliveredAtClose = 0

\* a caller sends its next value on its channel, or closes the channel when
\* it has sent them all
MergeSourceStep(s) ==
    /\ Running /\ pcOf[s] = "send"
    /\ IF local[s] <= counter[CountOfSrc(s)]
       THEN /\ Len(chanBuf[ChanOfSrc(s)]) < MergeSrcCap
            /\ chanBuf' = [chanBuf EXCEPT ![ChanOfSrc(s)] =
                              Append(chanBuf[ChanOfSrc(s)], BaseOfSrc(s) + local[s])]
            /\ hist' = [hist EXCEPT ![SentOfSrc(s)] =
                              Append(hist[SentOfSrc(s)], BaseOfSrc(s) + local[s])]
            /\ local' = [local EXCEPT ![s] = local[s] + 1]
            /\ UNCHANGED <<pcOf, chanClosed>>
       ELSE /\ chanClosed' = [chanClosed EXCEPT ![ChanOfSrc(s)] = TRUE]
            /\ pcOf' = [pcOf EXCEPT ![s] = "done"]
            /\ UNCHANGED <<chanBuf, hist, local>>
    /\ UNCHANGED <<goOthers, procVars, counter>>

\* merge: for val := range ch1   (receive, or leave the loop)
MergeRange1 ==
    /\ Running /\ pcOf["merge"] = "range1"
    /\ IF chanBuf["ch1"] # <<>>
       THEN /\ local' = [local EXCEPT !["merge"] = Head(chanBuf["ch1"])]
            /\ chanBuf' = [chanBuf EXCEPT !["ch1"] = Tail(chanBuf["ch1"])]
            /\ pcOf' = [pcOf EXCEPT !["merge"] = "send1"]
       ELSE /\ chanClosed["ch1"]
            /\ pcOf' = [pcOf EXCEPT !["merge"] = MergeAfterCh1]
            /\ UNCHANGED <<local, chanBuf>>
    /\ UNCHANGED <<goOthers, procVars, chanClosed, counter, hist>>

\* merge: for val := range ch2
MergeRange2 ==
    /\ Running /\ pcOf["merge"] = "range2"
    /\ IF chanBuf["ch2"] # <<>>
       THEN /\ local' = [local EXCEPT !["merge"] = Head(chanBuf["ch2"])]
            /\ chanBuf' = [chanBuf EXCEPT !["ch2"] = Tail(chanBuf["ch2"])]
            /\ pcOf' = [pcOf EXCEPT !["merge"] = "send2"]
       ELSE /\ chanClosed["ch2"]
            /\ pcOf' = [pcOf EXCEPT !["merge"] = "close"]
            /\ UNCHANGED <<local, chanBuf>>
    /\ UNCHANGED <<goOthers, procVars, chanClosed, counter, hist>>

\* merge: out <- val, received by the reader in the same step (out is
\* unbuffered)
MergeForward ==
    /\ Running /\ pcOf["merge"] \in {"send1", "send2"} /\ pcOf["reader"] = "range"
    /\ hist' = [hist EXCEPT !["out"] = Append(hist["out"], local["merge"])]
    /\ local' = [local EXCEPT !["merge"] = 0, !["reader"] = local["merge"]]
    /\ pcOf' = [pcOf EXCEPT !["merge"] = IF pcOf["merge"] = "send1" THEN "range1" ELSE "range2"]
    /\ UNCHANGED <<goOthers, procVars, chanBuf, chanClosed, counter>>

\* merge: close(out)
MergeClose ==
    /\ Running /\ pcOf["merge"] = "close"
    /\ chanClosed' = [chanClosed EXCEPT !["out"] = TRUE]
    /\ counter' = [counter EXCEPT !["closes"] = counter["closes"] + 1]
    /\ pcOf' = [pcOf EXCEPT !["merge"] = "done"]
    /\ UNCHANGED <<goOthers, procVars, local, chanBuf, hist>>

\* the reader's range over out ends when out is closed
MergeReaderEnd ==
    /\ Running /\ pcOf["reader"] = "range" /\ chanClosed["out"]
    /\ pcOf' = [pcOf EXCEPT !["reader"] = "done"]
    /\ UNCHANGED <<goOthers, procVars, local, chanBuf, chanClosed, counter, hist>>

NextMerge ==
    \/ \E s \in MergeSources : MergeSourceStep(s)
    \/ MergeRange1
    \/ MergeRange2
    \/ MergeForward
    \/ MergeClose
    \/ MergeReaderEnd

SpecMerge == InitMerge /\ [][NextMerge]_vars

\* C13: merge closes out exactly once and only after ch1 and ch2 are both
\* closed and drained; and when out is closed every value sent on ch1 or ch2
\* has been forwarded on out exactly once (all of ch1's, then all of ch2's).
MergeClosesAfterBothDrained ==
    /\ counter["closes"] <= 1
    /\ \A v \in 0..(20 + MergeMaxVals + 1) : Count(hist["out"], v) <= 1
    /\ chanClosed["out"] =>
          /\ chanClosed["ch1"] /\ chanClosed["ch2"]
          /\ chanBuf["ch1"] = <<>> /\ chanBuf["ch2"] = <<>>
          /\ pcOf["src1"] = "done" /\ pcOf["src2"] = "done"
          /\ hist["out"] = hist["sent1"] \o hist["sent2"]

\* C13 witness: both sources sent 2 values and closed, and out is closed
\* with all 4 values forwarded to the reader.
MergeBothForwarded ==
    /\ chanClosed["out"] /\ pcOf["reader"] = "done"
    /\ hist["out"] = <<11, 12, 21, 22>>

(***************************************************************************)
(* src/unnamed/part_000 lines 48-130: the pipeline  (prog = "pipeline")    *)
(*   workGenerator -> filter -> square -> half -> main, one goroutine per  *)
(*   stage, unbuffered channels: a send and its receive are one step.      *)
(*   hist[c] is the sequence of values that passed over channel c.         *)
(***************************************************************************)
WorkSlice == <<0, 1, 2, 3, 4, 5, 6, 7, 8>>

PipeStages == {"gen", "filter", "square", "half"}
PipeChans == {"ch", "filterOut", "squareOut", "halfOut"}

OutOf(g) ==
    CASE g = "gen" -> "ch"
      [] g = "filter" -> "filterOut"
      [] g = "square" -> "squareOut"
      [] g = "half" -> "halfOut"

SenderOf(c) ==
    CASE c = "ch" -> "gen"
      [] c = "filterOut" -> "filter"
      [] c = "squareOut" -> "square"
      [] c = "halfOut" -> "half"

ReceiverOf(c) ==
    CASE c = "ch" -> "filter"
      [] c = "filterOut" -> "square"
      [] c = "squareOut" -> "half"
      [] c = "halfOut" -> "main"

InOf(g) ==
    CASE g = "filter" -> "ch"
      [] g = "square" -> "filterOut"
      [] g = "half" -> "squareOut"
      [] g = "main" -> "halfOut"

\* for _, w := range work: the k-th value sent (the mutant walks the slice
\* backwards)
WorkAtReversed(k) == WorkSlice[Len(WorkSlice) + 1 - k]
WorkAt(k) == WorkSlice[k]

\* filter: if i%2 == 0
Keeps(i) == i % 2 = 0

\* square: int(math.Pow(float64(i), 2)), exact for these values (the mutant
\* doubles instead)
TimesTwo(i) == i * 2
SquareOf(i) == i * i

\* half: i / 2
HalfOf(i) == i \div 2

\* what a stage holds after it has received v
Computed(g, v) ==
    CASE g = "square" -> SquareOf(v)
      [] g = "half" -> HalfOf(v)
      [] OTHER -> v

\* where a stage goes after its send: back to the top of its range loop
\* (the mutant runs close(out) after the first send)
ClosesAfterSend == "close"
AfterSend == "range"

InitPipeline ==
    /\ prog = "pipeline" /\ exited = FALSE /\ panicked = FALSE
    /\ pcOf = [g \in {"gen"} |-> "send"] @@ [g \in {"filter", "square", "half", "main"} |-> "range"]
    /\ local = [g \in {"gen"} |-> 1] @@ [g \in {"filter", "square", "half", "main"} |-> 0]
    /\ chanBuf = <<>>
    /\ chanClosed = [c \in PipeChans |-> FALSE]
    /\ counter = [c \in PipeChans |-> 0]
    /\ hist = [c \in PipeChans |-> <<>>]
    \* cond.go and the worker pools do not run
    /\ queue = <<>> /\ muOwner = 0 /\ notify = <<>> /\ cpc = <<>> /\ ci = <<>>
    /\ waited = <<>> /\ appended = <<>> /\ removed = <<>>
    /\ jobs = <<>> /\ jobsClosed = FALSE /\ results = <<>> /\ resultsClosed = FALSE
    /\ mpc = "none" /\ mj = 0 /\ wpc = <<>> /\ wjob = <<>> /\ wg = <<>>
    /\ gpc = <<>> /\ gowner = <<>> /\ gres = <<>>
    /\ delivered = <<>> /\ sentRes = <<>> /\ got = <<>> /\ deliveredAtClose = 0

\* the value the sender of c is sending (gen's local is its index in work)
Sending(c) == IF c = "ch" THEN WorkAt(local["gen"]) ELSE local[SenderOf(c)]

\* the sender's state after its send on c
SenderNext(c) ==
    IF c = "ch"
    THEN [pc |-> IF local["gen"] + 1 <= Len(WorkSlice) THEN "send" ELSE "close",
          val |-> local["gen"] + 1]
    ELSE [pc |-> AfterSend, val |-> 0]

\* the receiver's state after it has received v from c: it holds v in its
\* loop body
ReceiverNext(c, v) == [pc |-> "body", val |-> v]

\* out <- v by the sender of c and 'for i := range in' by its receiver
\* (a send on a closed channel panics)
PipePass(c) ==
    /\ Running /\ pcOf[SenderOf(c)] = "send"
    /\ IF chanClosed[c]
       THEN /\ panicked' = TRUE
            /\ pcOf' = [pcOf EXCEPT ![SenderOf(c)] = "panic"]
            /\ UNCHANGED <<local, hist>>
       ELSE /\ pcOf[ReceiverOf(c)] = "range"
            /\ hist' = [hist EXCEPT ![c] = Append(hist[c], Sending(c))]
            /\ pcOf' = [pcOf EXCEPT ![SenderOf(c)] = SenderNext(c).pc,
                                    ![ReceiverOf(c)] = ReceiverNext(c, Sending(c)).pc]
            /\ local' = [local EXCEPT ![SenderOf(c)] = SenderNext(c).val,
                                      ![ReceiverOf(c)] = ReceiverNext(c, Sending(c)).val]
            /\ UNCHANGED panicked
    /\ UNCHANGED <<goOthers, prog, exited, chanBuf, chanClosed, counter>>

\* the loop body of a stage up to its send: filter tests i%2 == 0 and drops
\* odd values, square and half compute their value, main prints
PipeBody(g) ==
    /\ Running /\ pcOf[g] = "body"
    /\ pcOf' = [pcOf EXCEPT ![g] = IF g = "main" \/ (g = "filter" /\ ~Keeps(local[g]))
                                   THEN "range" ELSE "send"]
    /\ local' = [local EXCEPT ![g] = Computed(g, local[g])]
    /\ UNCHANGED <<goOthers, procVars, chanBuf, chanClosed, counter, hist>>

\* 'for i := range in' ends: in is closed (main then leaves its loop)
PipeRangeEnd(g) ==
    /\ Running /\ pcOf[g] = "range" /\ chanClosed[InOf(g)]
    /\ pcOf' = [pcOf EXCEPT ![g] = IF g = "main" THEN "return" ELSE "close"]
    /\ UNCHANGED <<goOthers, procVars, local, chanBuf, chanClosed, counter, hist>>

\* the deferred close(out) of a stage (closing a closed channel panics)
PipeClose(g) ==
    /\ Running /\ pcOf[g] = "close"
    /\ IF chanClosed[OutOf(g)]
       THEN /\ panicked' = TRUE
            /\ UNCHANGED <<chanClosed, counter>>
       ELSE /\ chanClosed' = [chanClosed EXCEPT ![OutOf(g)] = TRUE]
            /\ counter' = [counter EXCEPT ![OutOf(g)] = counter[OutOf(g)] + 1]
            /\ UNCHANGED panicked
    /\ pcOf' = [pcOf EXCEPT ![g] = "done"]
    /\ UNCHANGED <<goOthers, prog, exited, local, chanBuf, hist>>

\* main returns: the process ends
PipeMainReturn ==
    /\ Running /\ pcOf["main"] = "return"
    /\ exited' = TRUE
    /\ pcOf' = [pcOf EXCEPT !["main"] = "gone"]
    /\ UNCHANGED <<goOthers, prog, panicked, local, chanBuf, chanClosed, counter, hist>>

NextPipeline ==
    \/ \E c \in PipeChans : PipePass(c)
    \/ \E g \in {"filter", "square", "half", "main"} : PipeBody(g)
    \/ \E g \in {"filter", "square", "half", "main"} : PipeRangeEnd(g)
    \/ \E g \in PipeStages : PipeClose(g)
    \/ PipeMainReturn

SpecPipeline == InitPipeline /\ [][NextPipeline]_vars

\* The Go scheduler runs every goroutine that can take a step.
FairPipeline ==
    /\ \A c \in PipeChans : WF_vars(PipePass(c))
    /\ \A g \in {"filter", "square", "half", "main"} : WF_vars(PipeBody(g))
    /\ \A g \in {"filter", "square", "half", "main"} : WF_vars(PipeRangeEnd(g))
    /\ \A g \in PipeStages : WF_vars(PipeClose(g))
    /\ WF_vars(PipeMainReturn)

FairSpecPipeline == SpecPipeline /\ FairPipeline

RECURSIVE KeepEven(_)
KeepEven(s) ==
    IF s = <<>> THEN <<>>
    ELSE IF Head(s) % 2 = 0 THEN <<Head(s)>> \o KeepEven(Tail(s))
    ELSE KeepEven(Tail(s))

IsPrefix(s, t) == Len(s) <= Len(t) /\ \A k \in 1..Len(s) : s[k] = t[k]

\* a stage's input is closed (the generator's input is its slice: all sent)
InputDone(g) ==
    IF g = "gen" THEN Len(hist["ch"]) = Len(WorkSlice) ELSE chanClosed[InOf(g)]

\* the values a stage has taken in and those it should have passed on
Forwardable(g) ==
    IF g = "gen" THEN Len(WorkSlice)
    ELSE IF g = "filter" THEN Len(KeepEven(hist["ch"]))
    ELSE Len(hist[InOf(g)])

\* C14: every stage closes its output exactly once, only after its input is
\* closed and every value it received was forwarded or filtered out; nothing
\* is sent on a channel after it is closed (no panic); and the last channel
\* is eventually closed and main's range loop ends.
PipelineClosePropagates ==
    /\ [](/\ ~panicked
          /\ \A g \in PipeStages :
                /\ counter[OutOf(g)] <= 1
                /\ chanClosed[OutOf(g)] =>
                      (/\ InputDone(g)
                       /\ pcOf[g] = "done"
                       /\ Len(hist[OutOf(g)]) = Forwardable(g)))
    /\ [][\A c \in PipeChans : chanClosed[c] => hist'[c] = hist[c]]_vars
    /\ <>(chanClosed["halfOut"])
    /\ <>(pcOf["main"] = "gone")

\* C14 witness: all four channels are closed, each once, and main has left
\* its range loop.
PipelineAllClosed ==
    /\ \A c \in PipeChans : chanClosed[c] /\ counter[c] = 1
    /\ pcOf["main"] = "gone"

\* C15: the pipeline keeps the order of the input end to end: what passed
\* over each channel is, in order, what the stage before it took in (the
\* slice; its even values; their squares; the halves), so of two inputs
\* that pass the filter the earlier one reaches main first.
PipelineKeepsOrder ==
    /\ IsPrefix(hist["ch"], WorkSlice)
    /\ IsPrefix(hist["filterOut"], KeepEven(hist["ch"]))
    /\ IsPrefix(hist["squareOut"], [k \in 1..Len(hist["filterOut"]) |-> hist["filterOut"][k] * hist["filterOut"][k]])
    /\ IsPrefix(hist["halfOut"], [k \in 1..Len(hist["squareOut"]) |-> hist["squareOut"][k] \div 2])
    /\ \A p, q \in 1..Len(hist["halfOut"]) : p < q => hist["halfOut"][p] < hist["halfOut"][q]

\* C15 witness: main has received the values derived from 0, 2 and 4, in
\* that order, while later inputs are still inside the pipeline.
PipelineThreeInOrder ==
    /\ hist["halfOut"] = <<0, 2, 8>>
    /\ pcOf["main"] = "range"
    /\ pcOf["square"] = "send" /\ pcOf["filter"] = "send"

(***************************************************************************)
(* The two context programs  (prog = "trip", prog = "timeout")             *)
(*   src/unnamed/part_005 lines 37-64: main cancels trip after 3 s and     *)
(*     exits 1 s later;                                                    *)
(*   src/notes/Patterns.md lines 205-227: 3 workers under a context with   *)
(*     a 2 s timeout, main exits after 3 s.                                *)
(* Time is in milliseconds: counter["now"] is the clock, a sleeping        *)
(* goroutine holds its wake-up time in local, and the clock moves to the   *)
(* next wake-up or deadline only when no goroutine can take a step.        *)
(* counter["done"] = 1 when ctx.Done() is closed, counter["deadline"] is   *)
(* the context's deadline (-1: none), counter["late"] counts the default   *)
(* branches taken while Done was already closed.                           *)
(***************************************************************************)
TripRunMs == 3000
TripGraceMs == 1000
TripSleepMs == 1000
TimeoutMs == 2000
WorkerSleepMs == 500
MainSleepMs == 3000
NumCtxWorkers == 3

CtxGoroutines == {"main", "trip", "worker1", "worker2", "worker3"}
CtxWorkerName(i) == CASE i = 1 -> "worker1" [] i = 2 -> "worker2" [] i = 3 -> "worker3"
CtxWorkers ==
    IF prog = "trip" THEN {"trip"}
    ELSE IF prog = "timeout" THEN {CtxWorkerName(i) : i \in 1..NumCtxWorkers}
    ELSE {}

\* case <-ctx.Done() of the select is ready (the mutant never sees Done)
DoneNeverReady == FALSE
DoneReady == counter["done"] = 1

InitCtx(p) ==
    /\ prog = p /\ exited = FALSE /\ panicked = FALSE
    /\ pcOf = [g \in {"main"} |-> "create"] @@ [g \in CtxGoroutines |-> "none"]
    /\ local = [g \in CtxGoroutines |-> 0]
    /\ chanBuf = <<>> /\ chanClosed = <<>> /\ hist = <<>>
    /\ counter = [k \in {"now", "done", "late"} |-> 0] @@ [k \in {"deadline"} |-> -1]
    \* cond.go and the worker pools do not run
    /\ queue = <<>> /\ muOwner = 0 /\ notify = <<>> /\ cpc = <<>> /\ ci = <<>>
    /\ waited = <<>> /\ appended = <<>> /\ removed = <<>>
    /\ jobs = <<>> /\ jobsClosed = FALSE /\ results = <<>> /\ resultsClosed = FALSE
    /\ mpc = "none" /\ mj = 0 /\ wpc = <<>> /\ wjob = <<>> /\ wg = <<>>
    /\ gpc = <<>> /\ gowner = <<>> /\ gres = <<>>
    /\ delivered = <<>> /\ sentRes = <<>> /\ got = <<>> /\ deliveredAtClose = 0

InitContext == \E p \in {"trip", "timeout"} : InitCtx(p)

CtxUnchanged == UNCHANGED <<goOthers, chanBuf, chanClosed, hist>>

\* context.WithCancel (trip) / context.WithTimeout(..., 2*time.Second)
CtxMainCreate ==
    /\ Running /\ pcOf["main"] = "create"
    /\ pcOf' = [pcOf EXCEPT !["main"] = "go"]
    /\ counter' = [counter EXCEPT !["deadline"] =
                      IF prog = "timeout" THEN counter["now"] + TimeoutMs ELSE -1]
    /\ UNCHANGED <<procVars, local>> /\ CtxUnchanged

\* go trip(ctx) / for i := 1; i <= 3; i++ { go worker(ctx, i) }
CtxMainGo ==
    /\ Running /\ pcOf["main"] = "go"
    /\ LET started == local["main"] + 1
           w == IF prog = "trip" THEN "trip" ELSE CtxWorkerName(started)
           last == IF prog = "trip" THEN 1 ELSE NumCtxWorkers
       IN /\ pcOf' = [pcOf EXCEPT ![w] = "select",
                                  !["main"] = IF started = last THEN "sleep" ELSE "go"]
          /\ local' = [local EXCEPT !["main"] = started]
    /\ UNCHANGED <<procVars, counter>> /\ CtxUnchanged

\* how long main sleeps at each of its sleeps
MainSleepFor(pc) ==
    IF prog = "timeout" THEN MainSleepMs
    ELSE IF pc = "sleep" THEN TripRunMs ELSE TripGraceMs

\* time.Sleep begins in main
CtxMainSleep ==
    /\ Running /\ pcOf["main"] \in {"sleep", "grace"}
    /\ local' = [local EXCEPT !["main"] = counter["now"] + MainSleepFor(pcOf["main"])]
    /\ pcOf' = [pcOf EXCEPT !["main"] = IF pcOf["main"] = "sleep" THEN "asleep" ELSE "graceAsleep"]
    /\ UNCHANGED <<procVars, counter>> /\ CtxUnchanged

\* time.Sleep ends in main: after the first sleep comes cancel() (called in
\* trip, deferred in the timeout program), after the second the return
CtxMainWake ==
    /\ Running /\ pcOf["main"] \in {"asleep", "graceAsleep"}
    /\ counter["now"] >= local["main"]
    /\ pcOf' = [pcOf EXCEPT !["main"] = IF pcOf["main"] = "asleep" THEN "cancel" ELSE "return"]
    /\ UNCHANGED <<procVars, local, counter>> /\ CtxUnchanged

\* cancel(): Done is closed
CtxCancel ==
    /\ Running /\ pcOf["main"] = "cancel"
    /\ counter' = [counter EXCEPT !["done"] = 1]
    /\ pcOf' = [pcOf EXCEPT !["main"] = IF prog = "trip" THEN "grace" ELSE "return"]
    /\ UNCHANGED <<procVars, local>> /\ CtxUnchanged

\* main returns: the process ends
CtxMainReturn ==
    /\ Running /\ pcOf["main"] = "return"
    /\ exited' = TRUE
    /\ pcOf' = [pcOf EXCEPT !["main"] = "gone"]
    /\ UNCHANGED <<prog, panicked, local, counter>> /\ CtxUnchanged

\* the context's timer fires at the deadline: Done is closed
TimerDue ==
    /\ counter["deadline"] >= 0 /\ counter["done"] = 0
    /\ counter["now"] >= counter["deadline"]

CtxTimerFire ==
    /\ Running /\ TimerDue
    /\ counter' = [counter EXCEPT !["done"] = 1]
    /\ UNCHANGED <<procVars, pcOf, local>> /\ CtxUnchanged

\* select { case <-ctx.Done(): ...  default: ... }
CtxSelect(w) ==
    /\ Running /\ w \in CtxWorkers /\ pcOf[w] = "select"
    /\ pcOf' = [pcOf EXCEPT ![w] = IF DoneReady THEN "stopping" ELSE "working"]
    /\ counter' = [counter EXCEPT !["late"] =
                      IF counter["done"] = 1 /\ ~DoneReady THEN 1 ELSE counter["late"]]
    /\ UNCHANGED <<procVars, local>> /\ CtxUnchanged

\* case <-ctx.Done(): fmt.Println(... stopping); return
CtxStop(w) ==
    /\ Running /\ w \in CtxWorkers /\ pcOf[w] = "stopping"
    /\ pcOf' = [pcOf EXCEPT ![w] = "returned"]
    /\ UNCHANGED <<procVars, local, counter>> /\ CtxUnchanged

\* default: fmt.Println("Tripping" / "working..."); time.Sleep begins
CtxWork(w) ==
    /\ Running /\ w \in CtxWorkers /\ pcOf[w] = "working"
    /\ pcOf' = [pcOf EXCEPT ![w] = "asleep"]
    /\ local' = [local EXCEPT ![w] =
                    counter["now"] + (IF prog = "trip" THEN TripSleepMs ELSE WorkerSleepMs)]
    /\ UNCHANGED <<procVars, counter>> /\ CtxUnchanged

\* time.Sleep ends in a worker: back to the top of its loop
CtxWake(w) ==
    /\ Running /\ w \in CtxWorkers /\ pcOf[w] = "asleep"
    /\ counter["now"] >= local[w]
    /\ pcOf' = [pcOf EXCEPT ![w] = "select"]
    /\ UNCHANGED <<procVars, local, counter>> /\ CtxUnchanged

\* the goroutines that sleep, and the times something becomes due
Sleepers == {g \in CtxGoroutines : pcOf[g] \in {"asleep", "graceAsleep"}}
DueTimes ==
    {local[g] : g \in Sleepers}
      \cup (IF counter["deadline"] >= 0 /\ counter["done"] = 0 THEN {counter["deadline"]} ELSE {})

\* time passes: every goroutine is asleep or has returned, nothing is due;
\* the clock moves to the earliest wake-up or deadline
CtxAdvance ==
    /\ Running
    /\ \A g \in CtxGoroutines : pcOf[g] \in {"asleep", "graceAsleep", "returned", "none"}
    /\ \A t \in DueTimes : t > counter["now"]
    /\ DueTimes # {}
    /\ counter' = [counter EXCEPT !["now"] = CHOOSE t \in DueTimes : \A u \in DueTimes : t <= u]
    /\ UNCHANGED <<procVars, pcOf, local>> /\ CtxUnchanged

NextContext ==
    \/ CtxMainCreate
    \/ CtxMainGo
    \/ CtxMainSleep
    \/ CtxMainWake
    \/ CtxCancel
    \/ CtxMainReturn
    \/ CtxTimerFire
    \/ \E w \in CtxGoroutines : CtxSelect(w)
    \/ \E w \in CtxGoroutines : CtxStop(w)
    \/ \E w \in CtxGoroutines : CtxWork(w)
    \/ \E w \in CtxGoroutines : CtxWake(w)
    \/ CtxAdvance

SpecContext == InitContext /\ [][NextContext]_vars

\* The Go scheduler runs every goroutine that can take a step, timers fire
\* and time passes.
FairContext ==
    /\ WF_vars(CtxMainCreate) /\ WF_vars(CtxMainGo) /\ WF_vars(CtxMainSleep)
    /\ WF_vars(CtxMainWake) /\ WF_vars(CtxCancel) /\ WF_vars(CtxMainReturn)
    /\ WF_vars(CtxTimerFire) /\ WF_vars(CtxAdvance)
    /\ \A w \in CtxGoroutines :
          WF_vars(CtxSelect(w)) /\ WF_vars(CtxStop(w)) /\ WF_vars(CtxWork(w)) /\ WF_vars(CtxWake(w))

FairSpecContext == SpecContext /\ FairContext

\* trip after cancel(): no default branch is taken once Done is closed, trip
\* takes the Done branch only when Done is closed, and Done stays closed
TripObeysDone ==
    prog = "trip" =>
        /\ counter["late"] = 0
        /\ pcOf["trip"] \in {"stopping", "returned"} => counter["done"] = 1
        /\ pcOf["main"] \in {"grace", "graceAsleep", "return", "gone"} => counter["done"] = 1

\* C17: once main has called cancel(), Done stays signalled and every later
\* select of trip takes the Done branch, so no new "Tripping" iteration
\* starts; an iteration in progress runs to the end of its sleep; and trip
\* returns.
TripStopsAfterCancel ==
    /\ []TripObeysDone
    /\ [][prog = "trip" /\ pcOf["trip"] = "asleep" /\ pcOf'["trip"] # "asleep"
             => counter["now"] >= local["trip"]]_vars
    /\ ((prog = "trip" /\ counter["done"] = 1) ~> pcOf["trip"] = "returned")

OnceGoroutines == 3

OnceMain == 0
OnceCallers == 1..OnceGoroutines

\* once.m can be locked (the mutant's Do takes no lock)
OnceLockFree == TRUE
MutexFree == counter["mu"] = 0

InitOnce ==
    /\ prog = "once" /\ exited = FALSE /\ panicked = FALSE
    /\ pcOf = [g \in {OnceMain} |-> "add"] @@ [g \in OnceCallers |-> "none"]
    /\ local = [g \in {OnceMain} \cup OnceCallers |-> 0]
    /\ chanBuf = <<>> /\ chanClosed = <<>> /\ hist = <<>>
    /\ counter = [k \in {"cnt", "done", "mu", "wg", "runs", "slow"} |-> 0] @@ [k \in {"printed"} |-> -1]
    \* cond.go and the worker pools do not run
    /\ queue = <<>> /\ muOwner = 0 /\ notify = <<>> /\ cpc = <<>> /\ ci = <<>>
    /\ waited = <<>> /\ appended = <<>> /\ removed = <<>>
    /\ jobs = <<>> /\ jobsClosed = FALSE /\ results = <<>> /\ resultsClosed = FALSE
    /\ mpc = "none" /\ mj = 0 /\ wpc = <<>> /\ wjob = <<>> /\ wg = <<>>
    /\ gpc = <<>> /\ gowner = <<>> /\ gres = <<>>
    /\ delivered = <<>> /\ sentRes = <<>> /\ got = <<>> /\ deliveredAtClose = 0

OnceUnchanged == UNCHANGED <<goOthers, chanBuf, chanClosed, hist>>

\* wg.Add(100)
OnceWgAdd ==
    /\ Running /\ pcOf[OnceMain] = "add"
    /\ counter' = [counter EXCEPT !["wg"] = OnceGoroutines]
    /\ pcOf' = [pcOf EXCEPT ![OnceMain] = "go"]
    /\ UNCHANGED <<procVars, local>> /\ OnceUnchanged

\* for i := 0; i < 100; i++ { go func() {...}() }
OnceGo ==
    /\ Running /\ pcOf[OnceMain] = "go"
    /\ LET started == local[OnceMain] + 1
       IN /\ pcOf' = [pcOf EXCEPT ![started] = "do",
                                  ![OnceMain] = IF started = OnceGoroutines THEN "wait" ELSE "go"]
          /\ local' = [local EXCEPT ![OnceMain] = started]
    /\ UNCHANGED <<procVars, counter>> /\ OnceUnchanged

\* wg.Wait()
OnceWgWait ==
    /\ Running /\ pcOf[OnceMain] = "wait" /\ counter["wg"] = 0
    /\ pcOf' = [pcOf EXCEPT ![OnceMain] = "print"]
    /\ UNCHANGED <<procVars, local, counter>> /\ OnceUnchanged

\* fmt.Printf("Count is : %d\n", cnt)
OncePrint ==
    /\ Running /\ pcOf[OnceMain] = "print"
    /\ counter' = [counter EXCEPT !["printed"] = counter["cnt"]]
    /\ pcOf' = [pcOf EXCEPT ![OnceMain] = "return"]
    /\ UNCHANGED <<procVars, local>> /\ OnceUnchanged

\* main returns: the process ends
OnceMainReturn ==
    /\ Running /\ pcOf[OnceMain] = "return"
    /\ exited' = TRUE
    /\ pcOf' = [pcOf EXCEPT ![OnceMain] = "gone"]
    /\ UNCHANGED <<prog, panicked, local, counter>> /\ OnceUnchanged

\* once.Do(increment): the load of done; 1 returns at once, 0 takes the
\* slow path
OnceDo(g) ==
    /\ Running /\ g \in OnceCallers /\ pcOf[g] = "do"
    /\ pcOf' = [pcOf EXCEPT ![g] = IF counter["done"] = 1 THEN "wgdone" ELSE "lock"]
    /\ counter' = [counter EXCEPT !["slow"] =
                      IF counter["done"] = 1 THEN counter["slow"] ELSE counter["slow"] + 1]
    /\ UNCHANGED <<procVars, local>> /\ OnceUnchanged

\* slow path: o.m.Lock()
OnceLock(g) ==
    /\ Running /\ g \in OnceCallers /\ pcOf[g] = "lock"
    /\ MutexFree
    /\ counter' = [counter EXCEPT !["mu"] = 1]
    /\ pcOf' = [pcOf EXCEPT ![g] = "check"]
    /\ UNCHANGED <<procVars, local>> /\ OnceUnchanged

\* slow path: if o.done == 0 { f() }: increment is called when done is still
\* 0; its cnt++ begins with the read of cnt
OnceCheck(g) ==
    /\ Running /\ g \in OnceCallers /\ pcOf[g] = "check"
    /\ IF counter["done"] = 0
       THEN /\ pcOf' = [pcOf EXCEPT ![g] = "write"]
            /\ local' = [local EXCEPT ![g] = counter["cnt"]]
            /\ counter' = [counter EXCEPT !["runs"] = counter["runs"] + 1]
       ELSE /\ pcOf' = [pcOf EXCEPT ![g] = "unlock"]
            /\ UNCHANGED <<local, counter>>
    /\ UNCHANGED procVars /\ OnceUnchanged

\* cnt++: the write of cnt; increment returns
OnceIncrement(g) ==
    /\ Running /\ g \in OnceCallers /\ pcOf[g] = "write"
    /\ counter' = [counter EXCEPT !["cnt"] = local[g] + 1]
    /\ local' = [local EXCEPT ![g] = 0]
    /\ pcOf' = [pcOf EXCEPT ![g] = "store"]
    /\ UNCHANGED procVars /\ OnceUnchanged

\* slow path: the deferred o.done.Store(1)
OnceStoreDone(g) ==
    /\ Running /\ g \in OnceCallers /\ pcOf[g] = "store"
    /\ counter' = [counter EXCEPT !["done"] = 1]
    /\ pcOf' = [pcOf EXCEPT ![g] = "unlock"]
    /\ UNCHANGED <<procVars, local>> /\ OnceUnchanged

\* slow path: the deferred o.m.Unlock(); Do returns
OnceUnlock(g) ==
    /\ Running /\ g \in OnceCallers /\ pcOf[g] = "unlock"
    /\ counter' = [counter EXCEPT !["mu"] = 0]
    /\ pcOf' = [pcOf EXCEPT ![g] = "wgdone"]
    /\ UNCHANGED <<procVars, local>> /\ OnceUnchanged

\* defer wg.Done()
OnceWgDone(g) ==
    /\ Running /\ g \in OnceCallers /\ pcOf[g] = "wgdone"
    /\ counter' = [counter EXCEPT !["wg"] = counter["wg"] - 1]
    /\ pcOf' = [pcOf EXCEPT ![g] = "finished"]
    /\ UNCHANGED <<procVars, local>> /\ OnceUnchanged

NextOnce ==
    \/ OnceWgAdd
    \/ OnceGo
    \/ OnceWgWait
    \/ OncePrint
    \/ OnceMainReturn
    \/ \E g \in 1..OnceGoroutines : OnceDo(g)
    \/ \E g \in 1..OnceGoroutines : OnceLock(g)
    \/ \E g \in 1..OnceGoroutines : OnceCheck(g)
    \/ \E g \in 1..OnceGoroutines : OnceIncrement(g)
    \/ \E g \in 1..OnceGoroutines : OnceStoreDone(g)
    \/ \E g \in 1..OnceGoroutines : OnceUnlock(g)
    \/ \E g \in 1..OnceGoroutines : OnceWgDone(g)

SpecOnce == InitOnce /\ [][NextOnce]_vars

\* C20: increment runs exactly once over all callers of once.Do; no call of
\* once.Do returns before that one execution has completed; and after
\* wg.Wait() the count that main prints is 1.
OnceRunsExactlyOnce ==
    /\ counter["runs"] <= 1
    /\ \A g \in OnceCallers :
          pcOf[g] \in {"wgdone", "finished"} =>
              counter["runs"] = 1 /\ counter["cnt"] = 1 /\ counter["done"] = 1
    /\ pcOf[OnceMain] \in {"print", "return", "gone"} =>
          /\ counter["runs"] = 1 /\ counter["cnt"] = 1
          /\ \A g \in OnceCallers : pcOf[g] = "finished"
    /\ counter["printed"] \in {-1, 1}

\* C20 witness: main has printed 1 after every caller finished, and all the
\* callers had entered the slow path of once.Do together.
OncePrintedOneAfterContention ==
    /\ counter["printed"] = 1 /\ exited
    /\ counter["slow"] = OnceGoroutines

(***************************************************************************)
(* Further claims about cond.go, pool2 and the pipeline                    *)
(***************************************************************************)
\* C26: nothing synchronizes main with the producers and consumers of
\* cond.go: while the process runs, main's return is possible in every
\* state, whatever the four goroutines are doing, so main can return while
\* one of them has iterations left or is blocked in cond.Wait.
MainReturnNeedsNoJoin == (prog = "cond" /\ Running) => ENABLED CondMainReturn

\* C26 witness: main has returned while a goroutine that still has
\* iterations to do is blocked in cond.Wait and another has not finished.
MainReturnedWhileBlocked ==
    /\ prog = "cond" /\ exited
    /\ \E p, q \in CondProcs :
          /\ p # q
          /\ cpc[p] = "wait" /\ ci[p] <= NumItems
          /\ cpc[q] # "done" /\ cpc[q] # "wait"

\* C27: in pool2 nothing is sent on results after main has closed it: main
\* closes results only after it has received totaljobs results, at most
\* totaljobs sends are ever made, every job's goroutine is past its send
\* when results is closed, and the send-on-closed-channel panic is never
\* reached.
NoSendOnClosedResults ==
    prog = "pool2" =>
        /\ ~panicked
        /\ Len(sentRes) <= totaljobs
        /\ resultsClosed =>
              /\ Len(got) = totaljobs
              /\ Len(sentRes) = totaljobs
              /\ \A j \in JobIds : gpc[j] \in {"finish", "done"}

\* C27 witness: results is closed while a job's goroutine is still running,
\* past its send and before its wg.Done().
ClosedWithJobStillRunning ==
    /\ prog = "pool2" /\ resultsClosed
    /\ \E j \in JobIds : gpc[j] = "finish"

\* C29: main receives from the pipeline exactly 0, 2, 8, 18, 32 (the even
\* inputs squared and halved), in that order and nothing else: as many
\* values as there are even inputs, and no odd input passes the filter.
PipelineComputesHalvedSquares ==
    /\ IsPrefix(hist["halfOut"], <<0, 2, 8, 18, 32>>)
    /\ \A k \in 1..Len(hist["filterOut"]) : hist["filterOut"][k] % 2 = 0
    /\ pcOf["main"] \in {"return", "gone"} =>
          /\ hist["halfOut"] = <<0, 2, 8, 18, 32>>
          /\ Len(hist["halfOut"]) = Cardinality({k \in 1..Len(WorkSlice) : WorkSlice[k] % 2 = 0})

\* C29 witness: main's loop has ended after it received the five values,
\* all nine inputs having entered the pipeline.
PipelineReceivedAllFive ==
    /\ pcOf["main"] = "gone"
    /\ Len(hist["halfOut"]) = 5 /\ Len(hist["ch"]) = 9

(***************************************************************************)
(* src/con/channels.go  (prog = "orders")                                  *)
(*   main starts processOrder, updateOrderStatus and reportOrderStatus on  *)
(*   the same orders and joins them with a WaitGroup.  NumOrders stands    *)
(*   for the 10 orders and NumReports for the 5 reports of the source.     *)
(*   hist["status"][o] is order o's Status; nothing synchronizes the write *)
(*   of Status (a string: two words) with its reads, so the write is an    *)
(*   interval (hist["writing"][o] = 1) and a read inside it is a data race *)
(*   that yields the old value, the new value or a torn one.               *)
(*   local[g] is g's index in orders; counter: wg, rep (reports made),     *)
(*   pending (index of the status chosen by rand.Intn(3)), race and torn   *)
(*   (1 once a racing read / a torn value was observed).                   *)
(***************************************************************************)
NumOrders == 2
NumReports == 2

OrderGoroutines == {"process", "update", "report"}
StatusNames == <<"Processing", "Shipped", "Delivered">>

\* wg.Wait() returns when the counter is 0 (the mutant does not wait)
OrdersNotJoined == TRUE
OrdersJoined == counter["wg"] = 0

InitOrders ==
    /\ prog = "orders" /\ exited = FALSE /\ panicked = FALSE
    /\ pcOf = [g \in {"main"} |-> "add"] @@ [g \in OrderGoroutines |-> "none"]
    /\ local = [g \in {"main"} \cup OrderGoroutines |-> 1]
    /\ chanBuf = <<>> /\ chanClosed = <<>>
    /\ counter = [k \in {"wg", "rep", "pending", "race", "torn"} |-> 0]
    /\ hist = [k \in {"status"} |-> [o \in 1..NumOrders |-> "pending"]]
                @@ [k \in {"writing"} |-> [o \in 1..NumOrders |-> 0]]
    \* cond.go and the worker pools do not run
    /\ queue = <<>> /\ muOwner = 0 /\ notify = <<>> /\ cpc = <<>> /\ ci = <<>>
    /\ waited = <<>> /\ appended = <<>> /\ removed = <<>>
    /\ jobs = <<>> /\ jobsClosed = FALSE /\ results = <<>> /\ resultsClosed = FALSE
    /\ mpc = "none" /\ mj = 0 /\ wpc = <<>> /\ wjob = <<>> /\ wg = <<>>
    /\ gpc = <<>> /\ gowner = <<>> /\ gres = <<>>
    /\ delivered = <<>> /\ sentRes = <<>> /\ got = <<>> /\ deliveredAtClose = 0

OrdersUnchanged == UNCHANGED <<goOthers, chanBuf, chanClosed>>

\* orders := generateOrders(10); wg.Add(3)
OrdersWgAdd ==
    /\ Running /\ pcOf["main"] = "add"
    /\ counter' = [counter EXCEPT !["wg"] = 3]
    /\ pcOf' = [pcOf EXCEPT !["main"] = "go"]
    /\ UNCHANGED <<procVars, local, hist>> /\ OrdersUnchanged

\* the three go statements, in program order
OrdersGo ==
    /\ Running /\ pcOf["main"] = "go"
    /\ LET g == CASE local["main"] = 1 -> "process"
                  [] local["main"] = 2 -> "update"
                  [] local["main"] = 3 -> "report"
       IN pcOf' = [pcOf EXCEPT ![g] = IF g = "update" THEN "pick" ELSE "sleep",
                               !["main"] = IF local["main"] = 3 THEN "wait" ELSE "go"]
    /\ local' = [local EXCEPT !["main"] = local["main"] + 1]
    /\ UNCHANGED <<procVars, counter, hist>> /\ OrdersUnchanged

\* wg.Wait()
OrdersWgWait ==
    /\ Running /\ pcOf["main"] = "wait" /\ OrdersJoined
    /\ pcOf' = [pcOf EXCEPT !["main"] = "print"]
    /\ UNCHANGED <<procVars, local, counter, hist>> /\ OrdersUnchanged

\* fmt.Println("All the orders completed  Exiting!")
OrdersPrintCompleted ==
    /\ Running /\ pcOf["main"] = "print"
    /\ pcOf' = [pcOf EXCEPT !["main"] = "return"]
    /\ UNCHANGED <<procVars, local, counter, hist>> /\ OrdersUnchanged

\* main returns: the process ends
OrdersMainReturn ==
    /\ Running /\ pcOf["main"] = "return"
    /\ exited' = TRUE
    /\ pcOf' = [pcOf EXCEPT !["main"] = "gone"]
    /\ UNCHANGED <<prog, panicked, local, counter, hist>> /\ OrdersUnchanged

\* the deferred wg.Done() of each of the three goroutines
OrdersWgDone(g) ==
    /\ Running /\ pcOf[g] = "wgdone"
    /\ counter' = [counter EXCEPT !["wg"] = counter["wg"] - 1]
    /\ pcOf' = [pcOf EXCEPT ![g] = "done"]
    /\ UNCHANGED <<procVars, local, hist>> /\ OrdersUnchanged

\* processOrder: one iteration (sleep, print the order's ID)
ProcessOrderStep ==
    /\ Running /\ pcOf["process"] = "sleep"
    /\ local' = [local EXCEPT !["process"] = local["process"] + 1]
    /\ pcOf' = [pcOf EXCEPT !["process"] =
                   IF local["process"] + 1 <= NumOrders THEN "sleep" ELSE "wgdone"]
    /\ UNCHANGED <<procVars, counter, hist>> /\ OrdersUnchanged

\* updateOrderStatus: sleep; status := [...][rand.Intn(3)]
UpdatePick ==
    /\ Running /\ pcOf["update"] = "pick"
    /\ \E k \in 1..Len(StatusNames) : counter' = [counter EXCEPT !["pending"] = k]
    /\ pcOf' = [pcOf EXCEPT !["update"] = "write"]
    /\ UNCHANGED <<procVars, local, hist>> /\ OrdersUnchanged

\* updateOrderStatus: order.Status = status, the write begins
UpdateWriteBegin ==
    /\ Running /\ pcOf["update"] = "write"
    /\ hist' = [hist EXCEPT !["writing"][local["update"]] = 1]
    /\ pcOf' = [pcOf EXCEPT !["update"] = "writing"]
    /\ UNCHANGED <<procVars, local, counter>> /\ OrdersUnchanged

\* updateOrderStatus: order.Status = status, the write is complete
UpdateWriteEnd ==
    /\ Running /\ pcOf["update"] = "writing"
    /\ hist' = [hist EXCEPT !["writing"][local["update"]] = 0,
                            !["status"][local["update"]] = StatusNames[counter["pending"]]]
    /\ counter' = [counter EXCEPT !["pending"] = 0]
    /\ pcOf' = [pcOf EXCEPT !["update"] = "printed"]
    /\ UNCHANGED <<procVars, local>> /\ OrdersUnchanged

\* updateOrderStatus: Printf("Updated order ..."); next order
UpdatePrint ==
    /\ Running /\ pcOf["update"] = "printed"
    /\ local' = [local EXCEPT !["update"] = local["update"] + 1]
    /\ pcOf' = [pcOf EXCEPT !["update"] =
                   IF local["update"] + 1 <= NumOrders THEN "pick" ELSE "wgdone"]
    /\ UNCHANGED <<procVars, counter, hist>> /\ OrdersUnchanged

\* reportOrderStatus: time.Sleep(1 * time.Second); the header line
ReportSleep ==
    /\ Running /\ pcOf["report"] = "sleep"
    /\ local' = [local EXCEPT !["report"] = 1]
    /\ pcOf' = [pcOf EXCEPT !["report"] = "read"]
    /\ UNCHANGED <<procVars, counter, hist>> /\ OrdersUnchanged

\* reportOrderStatus: Printf("Order %d : %s\n", order.ID, order.Status): the
\* read of Status; inside a write of the same Status it is a data race
ReportRead ==
    /\ Running /\ pcOf["report"] = "read"
    /\ LET o == local["report"] IN
       IF hist["writing"][o] = 1
       THEN \E torn \in {0, 1} :
               counter' = [counter EXCEPT !["race"] = 1,
                              !["torn"] = IF torn = 1 THEN 1 ELSE counter["torn"]]
       ELSE UNCHANGED counter
    /\ local' = [local EXCEPT !["report"] = local["report"] + 1]
    /\ pcOf' = [pcOf EXCEPT !["report"] =
                   IF local["report"] + 1 <= NumOrders THEN "read" ELSE "footer"]
    /\ UNCHANGED <<procVars, hist>> /\ OrdersUnchanged

\* reportOrderStatus: the footer line; i++; i < 5
ReportNext ==
    /\ Running /\ pcOf["report"] = "footer"
    /\ counter' = [counter EXCEPT !["rep"] = counter["rep"] + 1]
    /\ local' = [local EXCEPT !["report"] = 1]
    /\ pcOf' = [pcOf EXCEPT !["report"] =
                   IF counter["rep"] + 1 < NumReports THEN "sleep" ELSE "wgdone"]
    /\ UNCHANGED <<procVars, hist>> /\ OrdersUnchanged

NextOrders ==
    \/ OrdersWgAdd
    \/ OrdersGo
    \/ OrdersWgWait
    \/ OrdersPrintCompleted
    \/ OrdersMainReturn
    \/ \E g \in OrderGoroutines : OrdersWgDone(g)
    \/ ProcessOrderStep
    \/ UpdatePick
    \/ UpdateWriteBegin
    \/ UpdateWriteEnd
    \/ UpdatePrint
    \/ ReportSleep
    \/ ReportRead
    \/ ReportNext

SpecOrders == InitOrders /\ [][NextOrders]_vars

\* The Go scheduler runs every goroutine that can take a step.
FairOrders ==
    /\ WF_vars(OrdersWgAdd) /\ WF_vars(OrdersGo) /\ WF_vars(OrdersWgWait)
    /\ WF_vars(OrdersPrintCompleted) /\ WF_vars(OrdersMainReturn)
    /\ \A g \in OrderGoroutines : WF_vars(OrdersWgDone(g))
    /\ WF_vars(ProcessOrderStep) /\ WF_vars(UpdatePick) /\ WF_vars(UpdateWriteBegin)
    /\ WF_vars(UpdateWriteEnd) /\ WF_vars(UpdatePrint)
    /\ WF_vars(ReportSleep) /\ WF_vars(ReportRead) /\ WF_vars(ReportNext)

FairSpecOrders == SpecOrders /\ FairOrders

\* C21: main prints 'All the orders completed' only after the three
\* goroutines have returned and called wg.Done(): wg.Wait() does not return
\* while one of them is running, and it eventually returns.
OrdersJoinedBeforeCompleted ==
    /\ [](pcOf["main"] \in {"print", "return", "gone"} =>
             /\ counter["wg"] = 0
             /\ \A g \in OrderGoroutines : pcOf[g] = "done")
    /\ <>(pcOf["main"] = "print")

\* C21 witness: main is past wg.Wait(), at its print, with all three
\* goroutines done, every order updated and every report made.
OrdersCompletedAfterJoin ==
    /\ pcOf["main"] = "print"
    /\ \A g \in OrderGoroutines : pcOf[g] = "done"
    /\ counter["rep"] = NumReports /\ local["update"] = NumOrders + 1

\* after wg.Wait() every order has been updated
OrdersAllUpdatedAfterWait ==
    pcOf["main"] \in {"print", "return", "gone"} =>
        \A o \in 1..NumOrders :
           hist["status"][o] \in {"Processing", "Shipped", "Delivered"}

\* C30: no Status is read by a report while updateOrderStatus writes it,
\* every Status a report observes is pending, Processing, Shipped or
\* Delivered (never a torn value), and after wg.Wait() every Status is
\* Processing, Shipped or Delivered.
OrderStatusRaceFree ==
    /\ counter["race"] = 0
    /\ counter["torn"] = 0
    /\ OrdersAllUpdatedAfterWait

(***************************************************************************)
(* The two panic programs  (prog = "recover", prog = "crash")              *)
(*   src/try/Panic -defer.go lines 35-48: one worker whose deferred        *)
(*     function recovers its panic; main sleeps 1 s and prints;            *)
(*   src/try/2panic.go lines 6-17: three workerr whose deferred call only  *)
(*     prints; main sleeps 1 s.                                            *)
(* A panic runs the goroutine's deferred calls; if none of them recovers,  *)
(* the runtime ends the whole process (panicked).  Time is in milliseconds *)
(* as in the context programs: counter["now"] is the clock, local["main"]  *)
(* main's wake-up time (while it starts the workers, the loop index), and  *)
(* the clock moves only when no goroutine can take a step.                 *)
(* counter: raised (panics raised), recovered (panics recovered), prints   *)
(* (lines printed by deferred calls), continued (1 when main has printed   *)
(* 'Main program continues').                                              *)
(***************************************************************************)
PanicMainSleepMs == 1000
NumCrashWorkers == 3

PanicGoroutines == {"main", "worker", "workerr0", "workerr1", "workerr2"}
CrashWorkerName(i) == CASE i = 0 -> "workerr0" [] i = 1 -> "workerr1" [] i = 2 -> "workerr2"
PanicWorkers ==
    IF prog = "recover" THEN {"worker"}
    ELSE IF prog = "crash" THEN {CrashWorkerName(i) : i \in 0..(NumCrashWorkers - 1)}
    ELSE {}

\* the goroutine's deferred function calls recover() (Panic -defer.go:37);
\* the deferred call of 2panic.go:8 is a Println (the mutant's deferred
\* function never recovers, or recovers in both programs)
NeverRecovers == FALSE
AlwaysRecovers == TRUE
DeferredRecovers == prog = "recover"

InitPanic(p) ==
    /\ prog = p /\ exited = FALSE /\ panicked = FALSE
    /\ pcOf = [g \in {"main"} |-> "go"] @@ [g \in PanicGoroutines |-> "none"]
    /\ local = [g \in PanicGoroutines |-> 0]
    /\ chanBuf = <<>> /\ chanClosed = <<>> /\ hist = <<>>
    /\ counter = [k \in {"now", "raised", "recovered", "prints", "continued"} |-> 0]
    \* cond.go and the worker pools do not run
    /\ queue = <<>> /\ muOwner = 0 /\ notify = <<>> /\ cpc = <<>> /\ ci = <<>>
    /\ waited = <<>> /\ appended = <<>> /\ removed = <<>>
    /\ jobs = <<>> /\ jobsClosed = FALSE /\ results = <<>> /\ resultsClosed = FALSE
    /\ mpc = "none" /\ mj = 0 /\ wpc = <<>> /\ wjob = <<>> /\ wg = <<>>
    /\ gpc = <<>> /\ gowner = <<>> /\ gres = <<>>
    /\ delivered = <<>> /\ sentRes = <<>> /\ got = <<>> /\ deliveredAtClose = 0

InitPanics == \E p \in {"recover", "crash"} : InitPanic(p)

PanicUnchanged == UNCHANGED <<goOthers, chanBuf, chanClosed, hist>>

\* go worker() / for i := 0; i < 3; i++ { go workerr(i) }
PanicMainGo ==
    /\ Running /\ pcOf["main"] = "go"
    /\ LET i == local["main"]
           w == IF prog = "recover" THEN "worker" ELSE CrashWorkerName(i)
           n == IF prog = "recover" THEN 1 ELSE NumCrashWorkers
       IN /\ pcOf' = [pcOf EXCEPT ![w] = "start",
                                  !["main"] = IF i + 1 < n THEN "go" ELSE "sleep"]
          /\ local' = [local EXCEPT !["main"] = i + 1]
    /\ UNCHANGED <<procVars, counter>> /\ PanicUnchanged

\* time.Sleep(time.Second) begins
PanicMainSleep ==
    /\ Running /\ pcOf["main"] = "sleep"
    /\ local' = [local EXCEPT !["main"] = counter["now"] + PanicMainSleepMs]
    /\ pcOf' = [pcOf EXCEPT !["main"] = "asleep"]
    /\ UNCHANGED <<procVars, counter>> /\ PanicUnchanged

\* time.Sleep(time.Second) ends
PanicMainWake ==
    /\ Running /\ pcOf["main"] = "asleep"
    /\ counter["now"] >= local["main"]
    /\ pcOf' = [pcOf EXCEPT !["main"] = IF prog = "recover" THEN "print" ELSE "return"]
    /\ UNCHANGED <<procVars, local, counter>> /\ PanicUnchanged

\* fmt.Println("Main program continues")
PanicMainPrint ==
    /\ Running /\ pcOf["main"] = "print"
    /\ counter' = [counter EXCEPT !["continued"] = 1]
    /\ pcOf' = [pcOf EXCEPT !["main"] = "return"]
    /\ UNCHANGED <<procVars, local>> /\ PanicUnchanged

\* main returns: the process ends
PanicMainReturn ==
    /\ Running /\ pcOf["main"] = "return"
    /\ exited' = TRUE
    /\ pcOf' = [pcOf EXCEPT !["main"] = "gone"]
    /\ UNCHANGED <<prog, panicked, local, counter>> /\ PanicUnchanged

\* worker / workerr: the defer statement registers the deferred call
WorkerDefer(w) ==
    /\ Running /\ w \in PanicWorkers /\ pcOf[w] = "start"
    /\ pcOf' = [pcOf EXCEPT ![w] = "panic"]
    /\ UNCHANGED <<procVars, local, counter>> /\ PanicUnchanged

\* worker / workerr: panic(...)
WorkerPanic(w) ==
    /\ Running /\ w \in PanicWorkers /\ pcOf[w] = "panic"
    /\ counter' = [counter EXCEPT !["raised"] = counter["raised"] + 1]
    /\ pcOf' = [pcOf EXCEPT ![w] = "unwind"]
    /\ UNCHANGED <<procVars, local>> /\ PanicUnchanged

\* the panicking goroutine runs its deferred call: with recover() the panic
\* stops, the value is printed and the function returns normally; without
\* it the line is printed and the panic goes on
WorkerDeferred(w) ==
    /\ Running /\ w \in PanicWorkers /\ pcOf[w] = "unwind"
    /\ counter' = [counter EXCEPT !["prints"] = counter["prints"] + 1,
                      !["recovered"] = IF DeferredRecovers THEN counter["recovered"] + 1
                                       ELSE counter["recovered"]]
    /\ pcOf' = [pcOf EXCEPT ![w] = IF DeferredRecovers THEN "done" ELSE "fatal"]
    /\ UNCHANGED <<procVars, local>> /\ PanicUnchanged

\* a panic that no deferred call recovered: the runtime ends the process
WorkerFatal(w) ==
    /\ Running /\ w \in PanicWorkers /\ pcOf[w] = "fatal"
    /\ panicked' = TRUE
    /\ pcOf' = [pcOf EXCEPT ![w] = "crashed"]
    /\ UNCHANGED <<prog, exited, local, counter>> /\ PanicUnchanged

\* time passes: main is asleep and no worker can take a step
PanicAdvance ==
    /\ Running /\ pcOf["main"] = "asleep"
    /\ \A w \in PanicGoroutines \ {"main"} : pcOf[w] \in {"none", "done"}
    /\ counter["now"] < local["main"]
    /\ counter' = [counter EXCEPT !["now"] = local["main"]]
    /\ UNCHANGED <<procVars, pcOf, local>> /\ PanicUnchanged

NextPanics ==
    \/ PanicMainGo
    \/ PanicMainSleep
    \/ PanicMainWake
    \/ PanicMainPrint
    \/ PanicMainReturn
    \/ \E w \in PanicGoroutines : WorkerDefer(w)
    \/ \E w \in PanicGoroutines : WorkerPanic(w)
    \/ \E w \in PanicGoroutines : WorkerDeferred(w)
    \/ \E w \in PanicGoroutines : WorkerFatal(w)
    \/ PanicAdvance

SpecPanics == InitPanics /\ [][NextPanics]_vars

\* The Go scheduler runs every goroutine that can take a step, and time
\* passes.
FairPanics ==
    /\ WF_vars(PanicMainGo) /\ WF_vars(PanicMainSleep) /\ WF_vars(PanicMainWake)
    /\ WF_vars(PanicMainPrint) /\ WF_vars(PanicMainReturn) /\ WF_vars(PanicAdvance)
    /\ \A w \in PanicGoroutines :
          /\ WF_vars(WorkerDefer(w)) /\ WF_vars(WorkerPanic(w))
          /\ WF_vars(WorkerDeferred(w)) /\ WF_vars(WorkerFatal(w))

FairSpecPanics == SpecPanics /\ FairPanics

CounterGoroutines == 3
IncrementsEach == 2

CounterMain == 0
Incrementers == 1..CounterGoroutines

\* mu.Lock() can proceed (the mutant is the version without the mutex)
CounterMuIgnored == TRUE
CounterMuFree == counter["mu"] = 0

InitMutexCounter ==
    /\ prog = "mutexcounter" /\ exited = FALSE /\ panicked = FALSE
    /\ pcOf = [g \in {CounterMain} |-> "add"] @@ [g \in Incrementers |-> "none"]
    /\ local = [g \in {CounterMain} \cup Incrementers |-> [i |-> 0, tmp |-> 0]]
    /\ chanBuf = <<>> /\ chanClosed = <<>> /\ hist = <<>>
    /\ counter = [k \in {"counter", "mu", "wg"} |-> 0] @@ [k \in {"printed"} |-> -1]
    \* cond.go and the worker pools do not run
    /\ queue = <<>> /\ muOwner = 0 /\ notify = <<>> /\ cpc = <<>> /\ ci = <<>>
    /\ waited = <<>> /\ appended = <<>> /\ removed = <<>>
    /\ jobs = <<>> /\ jobsClosed = FALSE /\ results = <<>> /\ resultsClosed = FALSE
    /\ mpc = "none" /\ mj = 0 /\ wpc = <<>> /\ wjob = <<>> /\ wg = <<>>
    /\ gpc = <<>> /\ gowner = <<>> /\ gres = <<>>
    /\ delivered = <<>> /\ sentRes = <<>> /\ got = <<>> /\ deliveredAtClose = 0

CounterUnchanged == UNCHANGED <<goOthers, chanBuf, chanClosed, hist>>

\* main: wg.Add(1)
CounterWgAdd ==
    /\ Running /\ pcOf[CounterMain] = "add"
    /\ counter' = [counter EXCEPT !["wg"] = counter["wg"] + 1]
    /\ pcOf' = [pcOf EXCEPT ![CounterMain] = "go"]
    /\ UNCHANGED <<procVars, local>> /\ CounterUnchanged

\* main: go increment(&wg); i++; i < 10
CounterGo ==
    /\ Running /\ pcOf[CounterMain] = "go"
    /\ LET started == local[CounterMain].i + 1
       IN /\ pcOf' = [pcOf EXCEPT ![started] = "lock",
                                  ![CounterMain] = IF started < CounterGoroutines THEN "add" ELSE "wait"]
          /\ local' = [local EXCEPT ![CounterMain].i = started]
    /\ UNCHANGED <<procVars, counter>> /\ CounterUnchanged

\* main: wg.Wait()
CounterWgWait ==
    /\ Running /\ pcOf[CounterMain] = "wait" /\ counter["wg"] = 0
    /\ pcOf' = [pcOf EXCEPT ![CounterMain] = "print"]
    /\ UNCHANGED <<procVars, local, counter>> /\ CounterUnchanged

\* main: fmt.Println("Final Counter Value:", counter)
CounterPrint ==
    /\ Running /\ pcOf[CounterMain] = "print"
    /\ counter' = [counter EXCEPT !["printed"] = counter["counter"]]
    /\ pcOf' = [pcOf EXCEPT ![CounterMain] = "return"]
    /\ UNCHANGED <<procVars, local>> /\ CounterUnchanged

\* main returns: the process ends
CounterMainReturn ==
    /\ Running /\ pcOf[CounterMain] = "return"
    /\ exited' = TRUE
    /\ pcOf' = [pcOf EXCEPT ![CounterMain] = "gone"]
    /\ UNCHANGED <<prog, panicked, local, counter>> /\ CounterUnchanged

\* increment: mu.Lock()
IncrementLock(g) ==
    /\ Running /\ g \in Incrementers /\ pcOf[g] = "lock"
    /\ CounterMuFree
    /\ counter' = [counter EXCEPT !["mu"] = 1]
    /\ pcOf' = [pcOf EXCEPT ![g] = "read"]
    /\ UNCHANGED <<procVars, local>> /\ CounterUnchanged

\* increment: counter++, the read
IncrementRead(g) ==
    /\ Running /\ g \in Incrementers /\ pcOf[g] = "read"
    /\ local' = [local EXCEPT ![g].tmp = counter["counter"]]
    /\ pcOf' = [pcOf EXCEPT ![g] = "write"]
    /\ UNCHANGED <<procVars, counter>> /\ CounterUnchanged

\* increment: counter++, the write
IncrementWrite(g) ==
    /\ Running /\ g \in Incrementers /\ pcOf[g] = "write"
    /\ counter' = [counter EXCEPT !["counter"] = local[g].tmp + 1]
    /\ local' = [local EXCEPT ![g].tmp = 0]
    /\ pcOf' = [pcOf EXCEPT ![g] = "unlock"]
    /\ UNCHANGED procVars /\ CounterUnchanged

\* increment: mu.Unlock(); i++; i < 1000
IncrementUnlock(g) ==
    /\ Running /\ g \in Incrementers /\ pcOf[g] = "unlock"
    /\ counter' = [counter EXCEPT !["mu"] = 0]
    /\ local' = [local EXCEPT ![g].i = local[g].i + 1]
    /\ pcOf' = [pcOf EXCEPT ![g] = IF local[g].i + 1 < IncrementsEach THEN "lock" ELSE "wgdone"]
    /\ UNCHANGED procVars /\ CounterUnchanged

\* increment: the deferred wg.Done()
IncrementWgDone(g) ==
    /\ Running /\ g \in Incrementers /\ pcOf[g] = "wgdone"
    /\ counter' = [counter EXCEPT !["wg"] = counter["wg"] - 1]
    /\ pcOf' = [pcOf EXCEPT ![g] = "finished"]
    /\ UNCHANGED <<procVars, local>> /\ CounterUnchanged

NextMutexCounter ==
    \/ CounterWgAdd
    \/ CounterGo
    \/ CounterWgWait
    \/ CounterPrint
    \/ CounterMainReturn
    \/ \E g \in 1..CounterGoroutines : IncrementLock(g)
    \/ \E g \in 1..CounterGoroutines : IncrementRead(g)
    \/ \E g \in 1..CounterGoroutines : IncrementWrite(g)
    \/ \E g \in 1..CounterGoroutines : IncrementUnlock(g)
    \/ \E g \in 1..CounterGoroutines : IncrementWgDone(g)

SpecMutexCounter == InitMutexCounter /\ [][NextMutexCounter]_vars

\* the increments goroutine g has completed: its finished iterations, and
\* the one whose write is done but whose unlock is not
IncrementsDoneBy(g) == local[g].i + (IF pcOf[g] = "unlock" THEN 1 ELSE 0)

RECURSIVE SumIncrements(_)
SumIncrements(n) == IF n = 0 THEN 0 ELSE IncrementsDoneBy(n) + SumIncrements(n - 1)

\* C23: with the mutex no increment is lost: the counter always equals the
\* number of increments completed so far by all goroutines, and after
\* wg.Wait() it equals (goroutines) x (increments per goroutine), which is
\* what main prints.
NoIncrementLost ==
    /\ counter["counter"] = SumIncrements(CounterGoroutines)
    /\ pcOf[CounterMain] \in {"print", "return", "gone"} =>
          counter["counter"] = CounterGoroutines * IncrementsEach
    /\ counter["printed"] \in {-1, CounterGoroutines * IncrementsEach}

\* C23 witness: main has printed the full count after every goroutine has
\* made all its increments.
CounterPrintedFullCount ==
    /\ counter["printed"] = CounterGoroutines * IncrementsEach
    /\ \A g \in Incrementers : pcOf[g] = "finished" /\ local[g].i = IncrementsEach

(***************************************************************************)
(* src/notes/Patterns.md lines 34-71: the worker pool  (prog = "pool")     *)
(*   Goroutine 0 is main, 1..numWorkers are the workers.  chanBuf holds    *)
(*   the buffers of jobs and results, local[w] the job a worker holds (for *)
(*   main its loop index), counter["wg"] the WaitGroup, hist["got"] the    *)
(*   results main has received.                                            *)
(***************************************************************************)
numWorkers == 3
PoolNumJobs == 5
PoolChanCap == 5

PoolMain == 0
PoolWorkers == 1..numWorkers

\* results <- job * 2 can proceed: the buffer of results has room (the
\* mutant's results channel holds two values only)
ResultsHasRoomForTwo == Len(chanBuf["results"]) < 2
ResultsHasRoom == Len(chanBuf["results"]) < PoolChanCap

InitWorkerPool ==
    /\ prog = "pool" /\ exited = FALSE /\ panicked = FALSE
    /\ pcOf = [g \in {PoolMain} |-> "add"] @@ [g \in PoolWorkers |-> "none"]
    /\ local = [g \in {PoolMain} \cup PoolWorkers |-> 0]
    /\ chanBuf = [c \in {"jobs", "results"} |-> <<>>]
    /\ chanClosed = [c \in {"jobs", "results"} |-> FALSE]
    /\ counter = [k \in {"wg"} |-> 0]
    /\ hist = [k \in {"got"} |-> <<>>]
    \* cond.go and the worker pools of part_000 do not run
    /\ queue = <<>> /\ muOwner = 0 /\ notify = <<>> /\ cpc = <<>> /\ ci = <<>>
    /\ waited = <<>> /\ appended = <<>> /\ removed = <<>>
    /\ jobs = <<>> /\ jobsClosed = FALSE /\ results = <<>> /\ resultsClosed = FALSE
    /\ mpc = "none" /\ mj = 0 /\ wpc = <<>> /\ wjob = <<>> /\ wg = <<>>
    /\ gpc = <<>> /\ gowner = <<>> /\ gres = <<>>
    /\ delivered = <<>> /\ sentRes = <<>> /\ got = <<>> /\ deliveredAtClose = 0

\* main: wg.Add(1)
PoolWgAdd ==
    /\ Running /\ pcOf[PoolMain] = "add"
    /\ counter' = [counter EXCEPT !["wg"] = counter["wg"] + 1]
    /\ pcOf' = [pcOf EXCEPT ![PoolMain] = "go"]
    /\ UNCHANGED <<goOthers, procVars, local, chanBuf, chanClosed, hist>>

\* main: go worker(i, jobs, results, &wg); i++; i <= numWorkers
PoolGoWorker ==
    /\ Running /\ pcOf[PoolMain] = "go"
    /\ LET started == local[PoolMain] + 1
       IN /\ pcOf' = [pcOf EXCEPT ![started] = "range",
                                  ![PoolMain] = IF started < numWorkers THEN "add" ELSE "send"]
          /\ local' = [local EXCEPT ![PoolMain] = IF started < numWorkers THEN started ELSE 1]
    /\ UNCHANGED <<goOthers, procVars, chanBuf, chanClosed, counter, hist>>

\* main: jobs <- j; j++; j <= 5
PoolSendJob ==
    /\ Running /\ pcOf[PoolMain] = "send"
    /\ Len(chanBuf["jobs"]) < PoolChanCap
    /\ chanBuf' = [chanBuf EXCEPT !["jobs"] = Append(chanBuf["jobs"], local[PoolMain])]
    /\ local' = [local EXCEPT ![PoolMain] = IF local[PoolMain] < PoolNumJobs THEN local[PoolMain] + 1 ELSE 0]
    /\ pcOf' = [pcOf EXCEPT ![PoolMain] = IF local[PoolMain] < PoolNumJobs THEN "send" ELSE "close"]
    /\ UNCHANGED <<goOthers, procVars, chanClosed, counter, hist>>

\* main: close(jobs)
PoolCloseJobs ==
    /\ Running /\ pcOf[PoolMain] = "close"
    /\ chanClosed' = [chanClosed EXCEPT !["jobs"] = TRUE]
    /\ pcOf' = [pcOf EXCEPT ![PoolMain] = "wait"]
    /\ UNCHANGED <<goOthers, procVars, local, chanBuf, counter, hist>>

\* main: wg.Wait()
PoolWgWait ==
    /\ Running /\ pcOf[PoolMain] = "wait" /\ counter["wg"] = 0
    /\ pcOf' = [pcOf EXCEPT ![PoolMain] = "closeres"]
    /\ UNCHANGED <<goOthers, procVars, local, chanBuf, chanClosed, counter, hist>>

\* main: close(results)
PoolCloseResults ==
    /\ Running /\ pcOf[PoolMain] = "closeres"
    /\ chanClosed' = [chanClosed EXCEPT !["results"] = TRUE]
    /\ pcOf' = [pcOf EXCEPT ![PoolMain] = "range"]
    /\ UNCHANGED <<goOthers, procVars, local, chanBuf, counter, hist>>

\* main: for res := range results { Println }: the next result, or the end
\* of the loop when results is closed and empty
PoolCollect ==
    /\ Running /\ pcOf[PoolMain] = "range"
    /\ IF chanBuf["results"] # <<>>
       THEN /\ hist' = [hist EXCEPT !["got"] = Append(hist["got"], Head(chanBuf["results"]))]
            /\ chanBuf' = [chanBuf EXCEPT !["results"] = Tail(chanBuf["results"])]
            /\ UNCHANGED pcOf
       ELSE /\ chanClosed["results"]
            /\ pcOf' = [pcOf EXCEPT ![PoolMain] = "return"]
            /\ UNCHANGED <<hist, chanBuf>>
    /\ UNCHANGED <<goOthers, procVars, local, chanClosed, counter>>

\* main returns: the process ends
PoolReturn ==
    /\ Running /\ pcOf[PoolMain] = "return"
    /\ exited' = TRUE
    /\ pcOf' = [pcOf EXCEPT ![PoolMain] = "gone"]
    /\ UNCHANGED <<goOthers, prog, panicked, local, chanBuf, chanClosed, counter, hist>>

\* worker: for job := range jobs: the next job, or the end of the loop when
\* jobs is closed and empty
PoolWorkerRange(w) ==
    /\ Running /\ w \in PoolWorkers /\ pcOf[w] = "range"
    /\ IF chanBuf["jobs"] # <<>>
       THEN /\ local' = [local EXCEPT ![w] = Head(chanBuf["jobs"])]
            /\ chanBuf' = [chanBuf EXCEPT !["jobs"] = Tail(chanBuf["jobs"])]
            /\ pcOf' = [pcOf EXCEPT ![w] = "work"]
       ELSE /\ chanClosed["jobs"]
            /\ pcOf' = [pcOf EXCEPT ![w] = "wgdone"]
            /\ UNCHANGED <<local, chanBuf>>
    /\ UNCHANGED <<goOthers, procVars, chanClosed, counter, hist>>

\* worker: Printf("processing"); time.Sleep(time.Second)
PoolWorkerWork(w) ==
    /\ Running /\ w \in PoolWorkers /\ pcOf[w] = "work"
    /\ pcOf' = [pcOf EXCEPT ![w] = "send"]
    /\ UNCHANGED <<goOthers, procVars, local, chanBuf, chanClosed, counter, hist>>

\* worker: results <- job * 2  (a send on a closed channel panics)
PoolWorkerSend(w) ==
    /\ Running /\ w \in PoolWorkers /\ pcOf[w] = "send"
    /\ IF chanClosed["results"]
       THEN /\ panicked' = TRUE
            /\ UNCHANGED <<chanBuf, local, pcOf>>
       ELSE /\ ResultsHasRoom
            /\ chanBuf' = [chanBuf EXCEPT !["results"] = Append(chanBuf["results"], local[w] * 2)]
            /\ local' = [local EXCEPT ![w] = 0]
            /\ pcOf' = [pcOf EXCEPT ![w] = "range"]
            /\ UNCHANGED panicked
    /\ UNCHANGED <<goOthers, prog, exited, chanClosed, counter, hist>>

\* worker: the deferred wg.Done()
PoolWorkerDone(w) ==
    /\ Running /\ w \in PoolWorkers /\ pcOf[w] = "wgdone"
    /\ counter' = [counter EXCEPT !["wg"] = counter["wg"] - 1]
    /\ pcOf' = [pcOf EXCEPT ![w] = "done"]
    /\ UNCHANGED <<goOthers, procVars, local, chanBuf, chanClosed, hist>>

NextWorkerPool ==
    \/ PoolWgAdd
    \/ PoolGoWorker
    \/ PoolSendJob
    \/ PoolCloseJobs
    \/ PoolWgWait
    \/ PoolCloseResults
    \/ PoolCollect
    \/ PoolReturn
    \/ \E w \in 1..numWorkers : PoolWorkerRange(w)
    \/ \E w \in 1..numWorkers : PoolWorkerWork(w)
    \/ \E w \in 1..numWorkers : PoolWorkerSend(w)
    \/ \E w \in 1..numWorkers : PoolWorkerDone(w)

SpecWorkerPool == InitWorkerPool /\ [][NextWorkerPool]_vars

\* The Go scheduler runs every goroutine that can take a step.
FairWorkerPool ==
    /\ WF_vars(PoolWgAdd) /\ WF_vars(PoolGoWorker) /\ WF_vars(PoolSendJob)
    /\ WF_vars(PoolCloseJobs) /\ WF_vars(PoolWgWait) /\ WF_vars(PoolCloseResults)
    /\ WF_vars(PoolCollect) /\ WF_vars(PoolReturn)
    /\ \A w \in 1..numWorkers :
          /\ WF_vars(PoolWorkerRange(w)) /\ WF_vars(PoolWorkerWork(w))
          /\ WF_vars(PoolWorkerSend(w)) /\ WF_vars(PoolWorkerDone(w))

FairSpecWorkerPool == SpecWorkerPool /\ FairWorkerPool

PoolMainPast(labels) == pcOf[PoolMain] \in labels

\* C24: the pool terminates although main waits before it reads a result:
\* a worker at 'results <- job * 2' always finds room in results, wg.Wait()
\* returns only when all 3 workers have exited, results is closed after
\* that, main then receives exactly 5 results, and main eventually returns.
PoolTerminatesWithFiveResults ==
    /\ [](/\ ~panicked
          /\ \A w \in PoolWorkers : pcOf[w] = "send" => ResultsHasRoom
          /\ PoolMainPast({"closeres", "range", "return", "gone"}) =>
                (counter["wg"] = 0 /\ \A w \in PoolWorkers : pcOf[w] = "done")
          /\ chanClosed["results"] => PoolMainPast({"range", "return", "gone"})
          /\ ~chanClosed["results"] => hist["got"] = <<>>
          /\ PoolMainPast({"return", "gone"}) =>
                (Len(hist["got"]) = PoolNumJobs /\ chanBuf["results"] = <<>>))
    /\ <>(pcOf[PoolMain] = "gone")

\* C24 witness: main is at wg.Wait() with all 5 results buffered and none
\* read, and the workers have exited.
PoolAllResultsBufferedAtWait ==
    /\ pcOf[PoolMain] = "wait" /\ Len(chanBuf["results"]) = PoolNumJobs
    /\ hist["got"] = <<>>
    /\ \A w \in PoolWorkers : pcOf[w] = "done"

(***************************************************************************)
(* Package mazamamaths  (prog = "add")                                     *)
(*   src/unnamed/part_006 lines 5-7: the package's function, Add2;         *)
(*   src/mazamamaths/mazamamaths_test.go lines 8-36: TestAdd and its       *)
(*   table.  The test calls the package's function on a pair (a, b):       *)
(*   local holds a, b and the value returned, counter["failed"] is 1 once  *)
(*   the test has reported an error.  The pairs are those of the table     *)
(*   and all pairs of -AddMaxAbs..AddMaxAbs.                               *)
(***************************************************************************)
AddMaxAbs == 5

\* func Add2(x, y int) int { return x - y }
Add2(x, y) == x - y

testCases ==
    << [a |-> 1, b |-> 2, expected |-> 3],
       [a |-> 2, b |-> 2, expected |-> 4],
       [a |-> 25, b |-> 25, expected |-> 50],
       [a |-> 1, b |-> 24, expected |-> 25] >>

AddPairs ==
    ((-AddMaxAbs..AddMaxAbs) \X (-AddMaxAbs..AddMaxAbs))
      \cup {<<testCases[k].a, testCases[k].b>> : k \in 1..Len(testCases)}

InitAdd ==
    /\ prog = "add" /\ exited = FALSE /\ panicked = FALSE
    /\ pcOf = [g \in {"test"} |-> "call"]
    /\ \E p \in AddPairs : local = [a |-> p[1], b |-> p[2], got |-> 0]
    /\ chanBuf = <<>> /\ chanClosed = <<>> /\ hist = <<>>
    /\ counter = [k \in {"failed"} |-> 0]
    \* cond.go and the worker pools do not run
    /\ queue = <<>> /\ muOwner = 0 /\ notify = <<>> /\ cpc = <<>> /\ ci = <<>>
    /\ waited = <<>> /\ appended = <<>> /\ removed = <<>>
    /\ jobs = <<>> /\ jobsClosed = FALSE /\ results = <<>> /\ resultsClosed = FALSE
    /\ mpc = "none" /\ mj = 0 /\ wpc = <<>> /\ wjob = <<>> /\ wg = <<>>
    /\ gpc = <<>> /\ gowner = <<>> /\ gres = <<>>
    /\ delivered = <<>> /\ sentRes = <<>> /\ got = <<>> /\ deliveredAtClose = 0

\* got := mazamamaths.Add(tc.a, tc.b): the call of the package's function
AddCall ==
    /\ Running /\ pcOf["test"] = "call"
    /\ local' = [local EXCEPT !.got = Add2(local.a, local.b)]
    /\ pcOf' = [pcOf EXCEPT !["test"] = "check"]
    /\ UNCHANGED <<goOthers, procVars, chanBuf, chanClosed, counter, hist>>

\* if got != tc.expected { t.Errorf(...) }, for a pair of the table
AddCheck ==
    /\ Running /\ pcOf["test"] = "check"
    /\ counter' = [counter EXCEPT !["failed"] =
                      IF \E k \in 1..Len(testCases) :
                            /\ testCases[k].a = local.a /\ testCases[k].b = local.b
                            /\ local.got # testCases[k].expected
                      THEN 1 ELSE 0]
    /\ pcOf' = [pcOf EXCEPT !["test"] = "done"]
    /\ UNCHANGED <<goOthers, procVars, local, chanBuf, chanClosed, hist>>

NextAdd == AddCall \/ AddCheck

SpecAdd == InitAdd /\ [][NextAdd]_vars

\* C25: the package's function returns a + b for every pair of ints, and
\* TestAdd reports no error on its table (1+2 = 3, 2+2 = 4, 25+25 = 50,
\* 1+24 = 25).
AddReturnsSum ==
    /\ pcOf["test"] \in {"check", "done"} => local.got = local.a + local.b
    /\ counter["failed"] = 0

(***************************************************************************)
(* src/notes/sync.md lines 37-72: sync.Cond with Broadcast                 *)
(*   (prog = "broadcast").  Goroutine 0 is main, 1..BroadcastWorkers are   *)
(*   the workers.  counter: ready (1 = true), mu (1 = cond.L held), wg,    *)
(*   waits (calls of cond.Wait so far); hist["notify"] is the list of the  *)
(*   workers blocked in cond.Wait.  main's sleep orders nothing: a worker  *)
(*   may take the lock before or after ready is set.                       *)
(***************************************************************************)
BroadcastWorkers == 3

BroadcastMain == 0
CondWorkers == 1..BroadcastWorkers

\* cond.Broadcast() wakes every goroutine of the notify list (the mutant
\* wakes the first one only, as cond.Signal() does)
SignalWakes(waiters) == IF waiters = <<>> THEN {} ELSE {Head(waiters)}
BroadcastWakes(waiters) == {waiters[k] : k \in 1..Len(waiters)}

InitBroadcast ==
    /\ prog = "broadcast" /\ exited = FALSE /\ panicked = FALSE
    /\ pcOf = [g \in {BroadcastMain} |-> "add"] @@ [g \in CondWorkers |-> "none"]
    /\ local = [g \in {BroadcastMain} \cup CondWorkers |-> 0]
    /\ chanBuf = <<>> /\ chanClosed = <<>>
    /\ counter = [k \in {"ready", "mu", "wg", "waits"} |-> 0]
    /\ hist = [k \in {"notify"} |-> <<>>]
    \* cond.go and the worker pools do not run
    /\ queue = <<>> /\ muOwner = 0 /\ notify = <<>> /\ cpc = <<>> /\ ci = <<>>
    /\ waited = <<>> /\ appended = <<>> /\ removed = <<>>
    /\ jobs = <<>> /\ jobsClosed = FALSE /\ results = <<>> /\ resultsClosed = FALSE
    /\ mpc = "none" /\ mj = 0 /\ wpc = <<>> /\ wjob = <<>> /\ wg = <<>>
    /\ gpc = <<>> /\ gowner = <<>> /\ gres = <<>>
    /\ delivered = <<>> /\ sentRes = <<>> /\ got = <<>> /\ deliveredAtClose = 0

BroadcastUnchanged == UNCHANGED <<goOthers, chanBuf, chanClosed>>

\* main: wg.Add(3)
BcWgAdd ==
    /\ Running /\ pcOf[BroadcastMain] = "add"
    /\ counter' = [counter EXCEPT !["wg"] = BroadcastWorkers]
    /\ pcOf' = [pcOf EXCEPT ![BroadcastMain] = "go"]
    /\ UNCHANGED <<procVars, local, hist>> /\ BroadcastUnchanged

\* main: for i := 1; i <= 3; i++ { go func(id int) {...}(i) }
BcGo ==
    /\ Running /\ pcOf[BroadcastMain] = "go"
    /\ LET started == local[BroadcastMain] + 1
       IN /\ pcOf' = [pcOf EXCEPT ![started] = "lock",
                                  ![BroadcastMain] = IF started < BroadcastWorkers THEN "go" ELSE "sleep"]
          /\ local' = [local EXCEPT ![BroadcastMain] = started]
    /\ UNCHANGED <<procVars, counter, hist>> /\ BroadcastUnchanged

\* main: time.Sleep(2 * time.Second)
BcSleep ==
    /\ Running /\ pcOf[BroadcastMain] = "sleep"
    /\ pcOf' = [pcOf EXCEPT ![BroadcastMain] = "lock"]
    /\ UNCHANGED <<procVars, local, counter, hist>> /\ BroadcastUnchanged

\* cond.L.Lock(), in main and in a worker; also the re-lock at the end of
\* cond.Wait() of a worker that was woken
BcLock(g) ==
    /\ Running /\ pcOf[g] \in {"lock", "relock"}
    /\ counter["mu"] = 0
    /\ counter' = [counter EXCEPT !["mu"] = 1]
    /\ pcOf' = [pcOf EXCEPT ![g] = IF g = BroadcastMain THEN "set" ELSE "check"]
    /\ UNCHANGED <<procVars, local, hist>> /\ BroadcastUnchanged

\* main: ready = true
BcSetReady ==
    /\ Running /\ pcOf[BroadcastMain] = "set"
    /\ counter' = [counter EXCEPT !["ready"] = 1]
    /\ pcOf' = [pcOf EXCEPT ![BroadcastMain] = "broadcast"]
    /\ UNCHANGED <<procVars, local, hist>> /\ BroadcastUnchanged

\* main: cond.Broadcast()
BcBroadcast ==
    /\ Running /\ pcOf[BroadcastMain] = "broadcast"
    /\ LET woken == BroadcastWakes(hist["notify"])
       IN /\ pcOf' = [g \in DOMAIN pcOf |->
                         IF g = BroadcastMain THEN "unlock"
                         ELSE IF g \in woken THEN "relock" ELSE pcOf[g]]
          /\ hist' = [hist EXCEPT !["notify"] = SelectSeq(hist["notify"], LAMBDA g : g \notin woken)]
    /\ UNCHANGED <<procVars, local, counter>> /\ BroadcastUnchanged

\* cond.L.Unlock(), in main and in a worker
BcUnlock(g) ==
    /\ Running /\ pcOf[g] = "unlock"
    /\ counter' = [counter EXCEPT !["mu"] = 0]
    /\ pcOf' = [pcOf EXCEPT ![g] = IF g = BroadcastMain THEN "wait" ELSE "wgdone"]
    /\ UNCHANGED <<procVars, local, hist>> /\ BroadcastUnchanged

\* main: wg.Wait()
BcWgWait ==
    /\ Running /\ pcOf[BroadcastMain] = "wait" /\ counter["wg"] = 0
    /\ pcOf' = [pcOf EXCEPT ![BroadcastMain] = "return"]
    /\ UNCHANGED <<procVars, local, counter, hist>> /\ BroadcastUnchanged

\* main returns: the process ends
BcMainReturn ==
    /\ Running /\ pcOf[BroadcastMain] = "return"
    /\ exited' = TRUE
    /\ pcOf' = [pcOf EXCEPT ![BroadcastMain] = "gone"]
    /\ UNCHANGED <<prog, panicked, local, counter, hist>> /\ BroadcastUnchanged

\* worker: for !ready { Printf("waiting"); cond.Wait() }: the test of ready;
\* when it is false the worker joins the notify list and unlocks cond.L
BcCheck(w) ==
    /\ Running /\ w \in CondWorkers /\ pcOf[w] = "check"
    /\ IF counter["ready"] = 1
       THEN /\ pcOf' = [pcOf EXCEPT ![w] = "received"]
            /\ UNCHANGED <<counter, hist>>
       ELSE /\ pcOf' = [pcOf EXCEPT ![w] = "waiting"]
            /\ hist' = [hist EXCEPT !["notify"] = Append(hist["notify"], w)]
            /\ counter' = [counter EXCEPT !["mu"] = 0, !["waits"] = counter["waits"] + 1]
    /\ UNCHANGED <<procVars, local>> /\ BroadcastUnchanged

\* worker: Printf("Worker %d received the job!\n", id)
BcReceived(w) ==
    /\ Running /\ w \in CondWorkers /\ pcOf[w] = "received"
    /\ local' = [local EXCEPT ![w] = counter["ready"]]
    /\ pcOf' = [pcOf EXCEPT ![w] = "unlock"]
    /\ UNCHANGED <<procVars, counter, hist>> /\ BroadcastUnchanged

\* worker's goroutine: the deferred wg.Done()
BcWgDone(w) ==
    /\ Running /\ w \in CondWorkers /\ pcOf[w] = "wgdone"
    /\ counter' = [counter EXCEPT !["wg"] = counter["wg"] - 1]
    /\ pcOf' = [pcOf EXCEPT ![w] = "done"]
    /\ UNCHANGED <<procVars, local, hist>> /\ BroadcastUnchanged

NextBroadcast ==
    \/ BcWgAdd
    \/ BcGo
    \/ BcSleep
    \/ \E g \in 0..BroadcastWorkers : BcLock(g)
    \/ BcSetReady
    \/ BcBroadcast
    \/ \E g \in 0..BroadcastWorkers : BcUnlock(g)
    \/ BcWgWait
    \/ BcMainReturn
    \/ \E w \in 1..BroadcastWorkers : BcCheck(w)
    \/ \E w \in 1..BroadcastWorkers : BcReceived(w)
    \/ \E w \in 1..BroadcastWorkers : BcWgDone(w)

SpecBroadcast == InitBroadcast /\ [][NextBroadcast]_vars

\* The Go scheduler runs every goroutine that can take a step; cond.L is
\* locked a bounded number of times, so nobody starves on it.
FairBroadcast ==
    /\ WF_vars(BcWgAdd) /\ WF_vars(BcGo) /\ WF_vars(BcSleep) /\ WF_vars(BcSetReady)
    /\ WF_vars(BcBroadcast) /\ WF_vars(BcWgWait) /\ WF_vars(BcMainReturn)
    /\ \A g \in 0..BroadcastWorkers : WF_vars(BcLock(g)) /\ WF_vars(BcUnlock(g))
    /\ \A w \in 1..BroadcastWorkers :
          WF_vars(BcCheck(w)) /\ WF_vars(BcReceived(w)) /\ WF_vars(BcWgDone(w))

FairSpecBroadcast == SpecBroadcast /\ FairBroadcast

\* C28: no worker is at or past its 'received the job' print while ready is
\* false (each printed with ready true); and every worker, whether it
\* called cond.Wait before the Broadcast or took the lock after ready was
\* set, eventually leaves the wait and finishes.
ReadyBeforeReceivedAndAllFinish ==
    /\ [](\A w \in CondWorkers :
             /\ pcOf[w] \in {"received", "unlock", "wgdone", "done"} => counter["ready"] = 1
             /\ pcOf[w] \in {"unlock", "wgdone", "done"} => local[w] = 1)
    /\ <>(\A w \in CondWorkers : pcOf[w] = "done")
    /\ [](\A w \in CondWorkers : pcOf[w] = "waiting" => <>(pcOf[w] = "done"))

\* C28 witness: all three workers have finished, two of them after a
\* cond.Wait that the Broadcast ended and one that took the lock only after
\* ready was set.
TwoWokenOneLateAllDone ==
    /\ \A w \in CondWorkers : pcOf[w] = "done"
    /\ counter["waits"] = 2

\* the workerr goroutines whose panic went on after their deferred call
CrashUnwound == {w \in PanicWorkers : pcOf[w] \in {"fatal", "crashed"}}

RaceTimeoutMs == 6000
RaceTimerMs == 5000

\* time.After(time.Second * 5) delivers 5 s after the select is entered
\* (the mutant's timer is longer than the context's timeout)
TimerAfterDeadline(now) == now + RaceTimeoutMs + 1000
TimerDeliversAt(now) == now + RaceTimerMs

InitTimerRace ==
    /\ prog = "timerrace" /\ exited = FALSE /\ panicked = FALSE
    /\ pcOf = [g \in {"main"} |-> "withTimeout"] @@ [g \in CtxGoroutines |-> "none"]
    /\ local = [g \in CtxGoroutines |-> 0]
    /\ chanBuf = <<>> /\ chanClosed = <<>> /\ hist = <<>>
    /\ counter = [k \in {"now", "done", "late", "branch"} |-> 0]
                   @@ [k \in {"deadline", "timer"} |-> -1]
    \* cond.go and the worker pools do not run
    /\ queue = <<>> /\ muOwner = 0 /\ notify = <<>> /\ cpc = <<>> /\ ci = <<>>
    /\ waited = <<>> /\ appended = <<>> /\ removed = <<>>
    /\ jobs = <<>> /\ jobsClosed = FALSE /\ results = <<>> /\ resultsClosed = FALSE
    /\ mpc = "none" /\ mj = 0 /\ wpc = <<>> /\ wjob = <<>> /\ wg = <<>>
    /\ gpc = <<>> /\ gowner = <<>> /\ gres = <<>>
    /\ delivered = <<>> /\ sentRes = <<>> /\ got = <<>> /\ deliveredAtClose = 0

\* ctx, cancel := context.WithTimeout(context.Background(), 6*time.Second);
\* defer cancel()
RaceWithTimeout ==
    /\ Running /\ pcOf["main"] = "withTimeout"
    /\ counter' = [counter EXCEPT !["deadline"] = counter["now"] + RaceTimeoutMs]
    /\ pcOf' = [pcOf EXCEPT !["main"] = "arm"]
    /\ UNCHANGED <<procVars, local>> /\ CtxUnchanged

\* the select is entered: time.After(time.Second * 5) arms the timer
RaceArmTimer ==
    /\ Running /\ pcOf["main"] = "arm"
    /\ counter' = [counter EXCEPT !["timer"] = TimerDeliversAt(counter["now"])]
    /\ pcOf' = [pcOf EXCEPT !["main"] = "blocked"]
    /\ UNCHANGED <<procVars, local>> /\ CtxUnchanged

\* the cases of the select that can proceed
RaceReadyCases ==
    (IF counter["timer"] >= 0 /\ counter["now"] >= counter["timer"] THEN {1} ELSE {})
      \cup (IF counter["done"] = 1 THEN {2} ELSE {})

\* time passes while main is blocked in the select with no case ready and
\* the deadline not due: the clock moves to the earlier of the two
RaceAdvance ==
    /\ Running /\ pcOf["main"] = "blocked"
    /\ RaceReadyCases = {} /\ ~TimerDue
    /\ counter' = [counter EXCEPT !["now"] =
                      IF counter["timer"] <= counter["deadline"]
                      THEN counter["timer"] ELSE counter["deadline"]]
    /\ UNCHANGED <<procVars, pcOf, local>> /\ CtxUnchanged

\* select: one of the ready cases is taken
RaceSelectCase ==
    /\ Running /\ pcOf["main"] = "blocked"
    /\ \E c \in RaceReadyCases : counter' = [counter EXCEPT !["branch"] = c]
    /\ pcOf' = [pcOf EXCEPT !["main"] = "print"]
    /\ UNCHANGED <<procVars, local>> /\ CtxUnchanged

\* fmt.Println of the case taken
RacePrint ==
    /\ Running /\ pcOf["main"] = "print"
    /\ pcOf' = [pcOf EXCEPT !["main"] = "deferred"]
    /\ UNCHANGED <<procVars, local, counter>> /\ CtxUnchanged

\* the deferred cancel(): Done is closed
RaceDeferredCancel ==
    /\ Running /\ pcOf["main"] = "deferred"
    /\ counter' = [counter EXCEPT !["done"] = 1]
    /\ pcOf' = [pcOf EXCEPT !["main"] = "leave"]
    /\ UNCHANGED <<procVars, local>> /\ CtxUnchanged

\* main returns: the process ends
RaceMainReturn ==
    /\ Running /\ pcOf["main"] = "leave"
    /\ exited' = TRUE
    /\ pcOf' = [pcOf EXCEPT !["main"] = "gone"]
    /\ UNCHANGED <<prog, panicked, local, counter>> /\ CtxUnchanged

NextTimerRace ==
    \/ RaceWithTimeout
    \/ RaceArmTimer
    \/ RaceAdvance
    \/ RaceSelectCase
    \/ RacePrint
    \/ RaceDeferredCancel
    \/ RaceMainReturn

\* all three context programs of the repository
InitDeadlines == \E p \in {"trip", "timeout", "timerrace"} :
                    IF p = "timerrace" THEN InitTimerRace ELSE InitCtx(p)

NextDeadlines == NextContext \/ NextTimerRace

SpecDeadlines == InitDeadlines /\ [][NextDeadlines]_vars

FairSpecDeadlines ==
    /\ SpecDeadlines /\ FairContext
    /\ WF_vars(RaceWithTimeout) /\ WF_vars(RaceArmTimer) /\ WF_vars(RaceAdvance)
    /\ WF_vars(RaceSelectCase) /\ WF_vars(RacePrint) /\ WF_vars(RaceDeferredCancel)
    /\ WF_vars(RaceMainReturn)

StartHealth == 100
MaxDamage == 20

HealthGoroutines == {"main", "ui"}

\* conversion to int32 (wraps around once; the health stays far from the ends)
Int32(x) == IF x > 2147483647 THEN (x - 2147483647 - 1) + (-2147483647 - 1)
            ELSE IF x < -2147483647 - 1 THEN (x + 2147483647 + 1) + 2147483647 + 1
            ELSE x

\* takeDamage: atomic.AddInt32(&p.health, int32(-value))
\* (the mutant adds the damage)
HealDamage(h, value) == Int32(h + Int32(value))
TakeDamage(h, value) == Int32(h + Int32(-value))

InitHealth ==
    /\ prog = "health" /\ exited = FALSE /\ panicked = FALSE
    /\ pcOf = [g \in HealthGoroutines |-> IF g = "main" THEN "go" ELSE "none"]
    /\ local = [g \in HealthGoroutines |-> 0]
    /\ chanBuf = [c \in {"gameTick", "uiTick"} |-> <<>>]
    /\ chanClosed = <<>> /\ hist = <<>>
    /\ counter = [k \in {"health"} |-> StartHealth] @@ [k \in {"sum"} |-> 0]
    \* cond.go and the worker pools do not run
    /\ queue = <<>> /\ muOwner = 0 /\ notify = <<>> /\ cpc = <<>> /\ ci = <<>>
    /\ waited = <<>> /\ appended = <<>> /\ removed = <<>>
    /\ jobs = <<>> /\ jobsClosed = FALSE /\ results = <<>> /\ resultsClosed = FALSE
    /\ mpc = "none" /\ mj = 0 /\ wpc = <<>> /\ wjob = <<>> /\ wg = <<>>
    /\ gpc = <<>> /\ gowner = <<>> /\ gres = <<>>
    /\ delivered = <<>> /\ sentRes = <<>> /\ got = <<>> /\ deliveredAtClose = 0

\* go startUIloop(player); gameOver(player) is entered
HealthMainGo ==
    /\ Running /\ prog = "health" /\ pcOf["main"] = "go"
    /\ pcOf' = [pcOf EXCEPT !["main"] = "damage", !["ui"] = "print"]
    /\ UNCHANGED <<goOthers, procVars, local, chanBuf, chanClosed, counter, hist>>

\* damage := rand.Intn(20)
HealthDamage ==
    /\ Running /\ prog = "health" /\ pcOf["main"] = "damage"
    /\ \E d \in 0 .. (MaxDamage - 1) : local' = [local EXCEPT !["main"] = d]
    /\ pcOf' = [pcOf EXCEPT !["main"] = "take"]
    /\ UNCHANGED <<goOthers, procVars, chanBuf, chanClosed, counter, hist>>

\* p.takeDamage(damage)
HealthTakeDamage ==
    /\ Running /\ prog = "health" /\ pcOf["main"] = "take"
    /\ counter' = [counter EXCEPT
                      !["health"] = TakeDamage(counter["health"], local["main"]),
                      !["sum"] = counter["sum"] + local["main"]]
    /\ pcOf' = [pcOf EXCEPT !["main"] = "test"]
    /\ UNCHANGED <<goOthers, procVars, local, chanBuf, chanClosed, hist>>

\* if p.getHealth() <= 0 { Println("Game Over..."); break }
HealthTest ==
    /\ Running /\ prog = "health" /\ pcOf["main"] = "test"
    /\ pcOf' = [pcOf EXCEPT !["main"] =
                   IF counter["health"] <= 0 THEN "over" ELSE "tick"]
    /\ UNCHANGED <<goOthers, procVars, local, chanBuf, chanClosed, counter, hist>>

\* <-ticker.C in gameOver
HealthAwaitTick ==
    /\ Running /\ prog = "health" /\ pcOf["main"] = "tick"
    /\ chanBuf["gameTick"] # <<>>
    /\ chanBuf' = [chanBuf EXCEPT !["gameTick"] = Tail(@)]
    /\ pcOf' = [pcOf EXCEPT !["main"] = "damage"]
    /\ UNCHANGED <<goOthers, procVars, local, chanClosed, counter, hist>>

\* gameOver's ticker (300 ms) ticks while gameOver is in its loop
HealthGameTicker ==
    /\ Running /\ prog = "health"
    /\ pcOf["main"] \in {"damage", "take", "test", "tick"}
    /\ chanBuf["gameTick"] = <<>>
    /\ chanBuf' = [chanBuf EXCEPT !["gameTick"] = <<1>>]
    /\ UNCHANGED <<goOthers, procVars, pcOf, local, chanClosed, counter, hist>>

\* gameOver returns (its deferred ticker.Stop() runs) and main returns:
\* the process ends
HealthMainReturn ==
    /\ Running /\ prog = "health" /\ pcOf["main"] = "over"
    /\ exited' = TRUE
    /\ pcOf' = [pcOf EXCEPT !["main"] = "gone"]
    /\ UNCHANGED <<goOthers, prog, panicked, local, chanBuf, chanClosed, counter, hist>>

\* startUIloop: fmt.Printf("Player health: %d\n", p.getHealth())
HealthUiPrint ==
    /\ Running /\ prog = "health" /\ pcOf["ui"] = "print"
    /\ local' = [local EXCEPT !["ui"] = counter["health"]]
    /\ pcOf' = [pcOf EXCEPT !["ui"] = "tick"]
    /\ UNCHANGED <<goOthers, procVars, chanBuf, chanClosed, counter, hist>>

\* <-ticker.C in startUIloop
HealthUiAwaitTick ==
    /\ Running /\ prog = "health" /\ pcOf["ui"] = "tick"
    /\ chanBuf["uiTick"] # <<>>
    /\ chanBuf' = [chanBuf EXCEPT !["uiTick"] = Tail(@)]
    /\ local' = [local EXCEPT !["ui"] = 0]
    /\ pcOf' = [pcOf EXCEPT !["ui"] = "print"]
    /\ UNCHANGED <<goOthers, procVars, chanClosed, counter, hist>>

\* startUIloop's ticker (1 s)
HealthUiTicker ==
    /\ Running /\ prog = "health" /\ pcOf["ui"] # "none"
    /\ chanBuf["uiTick"] = <<>>
    /\ chanBuf' = [chanBuf EXCEPT !["uiTick"] = <<1>>]
    /\ UNCHANGED <<goOthers, procVars, pcOf, local, chanClosed, counter, hist>>

NextHealth ==
    \/ HealthMainGo
    \/ HealthDamage
    \/ HealthTakeDamage
    \/ HealthTest
    \/ HealthAwaitTick
    \/ HealthGameTicker
    \/ HealthMainReturn
    \/ HealthUiPrint
    \/ HealthUiAwaitTick
    \/ HealthUiTicker

SpecHealth == InitHealth /\ [][NextHealth]_vars

\* C33: the health starts at 100, never increases, and always equals 100
\* minus the sum of the damages applied so far, each of them in 0..19;
\* gameOver has left its loop only with health <= 0, and then health >= -18.
HealthIsStartMinusDamages ==
    /\ (prog = "health" => counter["health"] = 100 /\ counter["sum"] = 0)
    /\ [](prog = "health" =>
             /\ counter["health"] = 100 - counter["sum"]
             /\ local["main"] \in 0 .. 19
             /\ pcOf["main"] \in {"over", "gone"} =>
                   (counter["health"] <= 0 /\ counter["health"] >= -18))
    /\ [][prog = "health" => counter'["health"] <= counter["health"]]_vars

\* C33 witness: the game is over at the lowest health possible, after a
\* last damage of 19 on a health of 1, while the UI loop is still running.
GameOverAtLowestHealth ==
    /\ prog = "health" /\ pcOf["main"] = "over" /\ pcOf["ui"] # "none"
    /\ counter["health"] = -18 /\ counter["sum"] = 118 /\ local["main"] = 19

====
